---- MODULE Spec2Model ----
(***************************************************************************)
(* A model of LEGION/Stencil/stencil.cc: the grid partitioner              *)
(* (createHaloPartition, createBoundaryPartition, createBalancedPartition),*)
(* the placement policy (StencilMapper), the stencil arithmetic and the    *)
(* per-shard ghost exchange protocol of spmd_task.                         *)
(*                                                                         *)
(* The module holds several specifications over one set of variables; a    *)
(* specification leaves the variables of the other sub-models at their     *)
(* idle value.                                                             *)
(*   SpecPart  : parameter checks and the three partitioning functions     *)
(*   SpecMap   : StencilMapper::map_must_epoch / map_task                  *)
(*   SpecNum   : the field data of all tiles over the iterations           *)
(*   SpecProto : the operations the shards issue and the phase barriers    *)
(*                                                                         *)
(* assert(e) is modelled as the build with assertions compiled in: a       *)
(* failing assertion aborts the function (no result is produced).          *)
(***************************************************************************)
EXTENDS Integers, Sequences, FiniteSets, TLC

(***************************************************************************)
(* Bounds of the model.                                                    *)
(***************************************************************************)
PartMaxN == 9
PartMaxRanks == 5
PartMaxRadius == 3
PartMaxThreads == 3
MapMaxNodes == 2
MapMaxProcs == 3
MapMaxNuma == 3
ProtoMaxN == 12
ProtoMaxRanks == 3
ProtoMaxIter == 2
ProtoMaxRadius == 1
ProtoMaxThreads == 1
NumMaxN == 6
NumMaxRanks == 4
NumMaxIter == 2
NumMaxRadius == 2
NumMaxThreads == 2

(***************************************************************************)
(* The enumerations of the source.                                         *)
(***************************************************************************)
GHOST_LEFT == 0
GHOST_UP == 1
GHOST_RIGHT == 2
GHOST_DOWN == 3
PRIVATE == 4

LEFT == 0
LEFT_UP == 1
UP == 2
UP_RIGHT == 3
RIGHT == 4
RIGHT_DOWN == 5
DOWN == 6
DOWN_LEFT == 7
INTERIOR == 8

GhostDirs == GHOST_LEFT .. GHOST_DOWN
Boundaries == LEFT .. DOWN_LEFT

VARIABLES
  \* ---- partitioner (top_level_task's checks, spmd_task's set-up) ----
  pPc,          \* position: "args", "exit", "tiles", "halo", ... , "done", "abort"
  pArgs,        \* [n, ranks, threads, R]: the inputs
  pGrid,        \* [Px, Py]: Num_procsx, Num_procsy
  pTile,        \* <<tileX, tileY>> of the shard followed
  pHaloBox,     \* the shard's region: haloColoring[tilePoint]
  pLocalLP,     \* createHaloPartition's coloring, GHOST_LEFT..PRIVATE -> Rect
  pBoundaryLP,  \* createBoundaryPartition's coloring, LEFT..INTERIOR -> Rect
  pHasBoundary, \* hasBoundary, LEFT..INTERIOR -> BOOLEAN
  pPrivateLp,   \* createBalancedPartition(privateLr): sequence of Rect
  pInteriorLp,  \* createBalancedPartition(interiorLr): sequence of Rect
  \* ---- placement policy (StencilMapper) ----
  mPc,          \* "assign", "pass1", "pass2", "done", "abort", "crash"
  mMachine,     \* [nodes, procs]: address spaces, LOC processors on each
  mLegion,      \* [allPairs, swap]: how the runtime lists the constraints
  mGrid,        \* <<Num_procsx, Num_procsy>> of the must-epoch launch
  mConstraints, \* the MappingConstraints handed to map_must_epoch
  mI,           \* the loop index i of the loop mPc names
  mTargetProc,  \* task -> target_proc (tasks 0 .. mI-1 during "assign")
  mRanking,     \* <<task, idx>> -> regions[idx].target_ranking
  mMappings,    \* the local map 'mappings': region -> Memory
  \* ---- shards, operations and phase barriers (top_level_task, spmd_task) ----
  xPc,          \* top_level_task: "args", "exit", "run", "abort"
  xArgs,        \* [n, ranks, threads, iterations, R]: the inputs
  xGrid,        \* <<Num_procsx, Num_procsy>>
  shPc,         \* shard -> position in spmd_task
  shGeo,        \* shard -> [hasNeighbor, hasBoundary, neighborLrs]
  shBar,        \* shard -> SPMDArgs' barrier handles, as advanced so far
  ops,          \* shard -> the operations issued so far, in program order
  bar,          \* barrier -> (phase -> arrivals counted)
  inVer,        \* tile -> increments applied to its private FID_IN
  writing,      \* tile -> launches now writing its private FID_IN
  inflight,     \* shard -> dir -> what the running neighbor copy has read
  buf,          \* shard -> dir -> content of bufferLrs[dir]
  ghost,        \* shard -> dir -> content of ghostLrs[dir]
  nWaits,       \* barrier -> waits satisfied so far
  lastWait,     \* barrier -> phase the latest satisfied wait observed
  \* ---- the fields (init_*_task, stencil, inc_field_task, check_task) ----
  nPc,          \* "args", "exit", "abort", "init", "weights", "interior",
                \* "exchange", "boundary", "inc", "check", "reduce", "valid",
                \* "invalid", "rate"
  nArgs,        \* [n, ranks, threads, iterations, R]: the inputs
  nIter,        \* the loop variable iter
  nW,           \* <<i, j>> -> FID_WEIGHT, in units of 1 / (2 * R * Lcm(R))
  nIn,          \* tile -> point of its halo box -> FID_IN
  nOut,         \* tile -> point of its halo box -> FID_OUT, in the same units
  nErr,         \* tile -> abserr returned by its shard, in the same units
  \* ---- the tile grid (top_level_task's loop over Num_procsx) ----
  gPc,          \* "entry", "loop", "done"
  gRanks,       \* num_ranks
  gPx,          \* Num_procsx
  gPy,          \* Num_procsy
  \* ---- the mapper's calls (select_task_options, slice_domain) ----
  cPc,          \* "options", "slice", "while", "for", "stride", "done", "abort"
  cMachine,     \* [nodes, procs]: address spaces, LOC processors on each
  cLocal,       \* local_proc of the mapper
  cTask,        \* [name, target_proc] and the options of the task
  cVolume,      \* domain.get_volume()
  cIt,          \* position of the iterator 'it' in procs, procs.size() = end()
  cRemaining,   \* remaining_volume
  cI,           \* the loop variable i of the stride loop
  cTargets      \* target_procs

partVars == <<pPc, pArgs, pGrid, pTile, pHaloBox, pLocalLP, pBoundaryLP,
              pHasBoundary, pPrivateLp, pInteriorLp>>

mapVars == <<mPc, mMachine, mLegion, mGrid, mConstraints, mI, mTargetProc,
             mRanking, mMappings>>

vars == <<pPc, pArgs, pGrid, pTile, pHaloBox, pLocalLP, pBoundaryLP,
          pHasBoundary, pPrivateLp, pInteriorLp,
          mPc, mMachine, mLegion, mGrid, mConstraints, mI, mTargetProc,
          mRanking, mMappings,
          xPc, xArgs, xGrid, shPc, shGeo, shBar, ops, bar, inVer,
          writing, inflight, buf, ghost, nWaits, lastWait,
          nPc, nArgs, nIter, nW, nIn, nOut, nErr,
          gPc, gRanks, gPx, gPy,
          cPc, cMachine, cLocal, cTask, cVolume, cIt, cRemaining, cI,
          cTargets>>

gridVars == <<gPc, gRanks, gPx, gPy>>

callVars == <<cPc, cMachine, cLocal, cTask, cVolume, cIt, cRemaining, cI,
              cTargets>>

numVars == <<nPc, nArgs, nIter, nW, nIn, nOut, nErr>>

protoVars == <<xPc, xArgs, xGrid, shPc, shGeo, shBar, ops, bar, inVer,
               writing, inflight, buf, ghost, nWaits, lastWait>>

(***************************************************************************)
(* The idle value of each sub-model's variables, and what the actions of   *)
(* one sub-model leave unchanged.                                          *)
(***************************************************************************)
PartIdle ==
  /\ pPc = "idle"
  /\ pArgs = <<>>
  /\ pGrid = <<>>
  /\ pTile = <<>>
  /\ pHaloBox = <<>>
  /\ pLocalLP = <<>>
  /\ pBoundaryLP = <<>>
  /\ pHasBoundary = <<>>
  /\ pPrivateLp = <<>>
  /\ pInteriorLp = <<>>

MapIdle ==
  /\ mPc = "idle"
  /\ mMachine = <<>>
  /\ mLegion = <<>>
  /\ mGrid = <<>>
  /\ mConstraints = <<>>
  /\ mI = 0
  /\ mTargetProc = <<>>
  /\ mRanking = <<>>
  /\ mMappings = <<>>

ProtoIdle ==
  /\ xPc = "idle"
  /\ xArgs = <<>>
  /\ xGrid = <<>>
  /\ shPc = <<>>
  /\ shGeo = <<>>
  /\ shBar = <<>>
  /\ ops = <<>>
  /\ bar = <<>>
  /\ inVer = <<>>
  /\ writing = <<>>
  /\ inflight = <<>>
  /\ buf = <<>>
  /\ ghost = <<>>
  /\ nWaits = <<>>
  /\ lastWait = <<>>

NumIdle ==
  /\ nPc = "idle"
  /\ nArgs = <<>>
  /\ nIter = 0
  /\ nW = <<>>
  /\ nIn = <<>>
  /\ nOut = <<>>
  /\ nErr = <<>>

GridIdle ==
  /\ gPc = "idle"
  /\ gRanks = 0
  /\ gPx = 0
  /\ gPy = 0

CallIdle ==
  /\ cPc = "idle"
  /\ cMachine = <<>>
  /\ cLocal = <<>>
  /\ cTask = <<>>
  /\ cVolume = 0
  /\ cIt = 0
  /\ cRemaining = 0
  /\ cI = 0
  /\ cTargets = <<>>

NotPart == <<mapVars, protoVars, numVars, gridVars, callVars>>
NotMap == <<partVars, protoVars, numVars, gridVars, callVars>>
NotProto == <<partVars, mapVars, numVars, gridVars, callVars>>
NotNum == <<partVars, mapVars, protoVars, gridVars, callVars>>
NotGrid == <<partVars, mapVars, protoVars, numVars, callVars>>
NotCall == <<partVars, mapVars, protoVars, numVars, gridVars>>

(***************************************************************************)
(* Integer helpers: C's int arithmetic.                                    *)
(***************************************************************************)
Max(a, b) == IF a >= b THEN a ELSE b
Min(a, b) == IF a <= b THEN a ELSE b

\* C's '/' truncates towards zero
CDiv(a, b) ==
  IF a >= 0 THEN a \div b ELSE -((-a) \div b)

\* C's '%' has the sign of the dividend
CMod(a, b) == a - b * CDiv(a, b)

\* (int)(sqrt(x)) for x >= 0
ISqrt(x) == CHOOSE r \in 0 .. x : r * r <= x /\ (r + 1) * (r + 1) > x

(***************************************************************************)
(* Rect<2>: [lo |-> <<x, y>>, hi |-> <<x, y>>], both ends inclusive.  A    *)
(* coloring entry that is never assigned holds the default Domain, which   *)
(* has no points.                                                          *)
(***************************************************************************)
Rect(lox, loy, hix, hiy) == [lo |-> <<lox, loy>>, hi |-> <<hix, hiy>>]

NoDomain == Rect(0, 0, -1, -1)

Points(r) ==
  {<<x, y>> : x \in r.lo[1] .. r.hi[1], y \in r.lo[2] .. r.hi[2]}

(***************************************************************************)
(* top_level_task: the "processor" grid and the parameter checks.          *)
(***************************************************************************)
\* for (Num_procsx = (int)(sqrt(num_ranks + 1)); Num_procsx > 0; --Num_procsx)
\*   if (num_ranks % Num_procsx == 0) { Num_procsy = ...; break; }
Num_procsx(num_ranks) ==
  LET start == ISqrt(num_ranks + 1)
      divs  == {d \in 1 .. start : num_ranks % d = 0}
  IN  IF divs = {} THEN 0
      ELSE CHOOSE d \in divs : \A e \in divs : e <= d

Num_procsy(num_ranks) ==
  IF Num_procsx(num_ranks) = 0 THEN 0
  ELSE num_ranks \div Num_procsx(num_ranks)

\* num_ranks = gasnet_nodes() * num_numa_nodes is 0 when <# numa nodes> is
\* given as 0: the grid is then 1 x 0 and, once the checks of threads,
\* iterations and n have passed, n % Num_procsy divides by zero
ModByZero(a) ==
  /\ a.threads > 0
  /\ a.iterations >= 1
  /\ a.n > 0
  /\ Num_procsy(a.ranks) = 0

\* the checks of the inputs after the usage test, in the order of the
\* source; TRUE when one of them ends the process with EXIT_FAILURE
ParamsRejected(a) ==
  IF a.threads <= 0 \/ a.iterations < 1 \/ a.n <= 0 THEN TRUE
  ELSE IF Num_procsy(a.ranks) = 0 THEN FALSE
  ELSE \/ a.n % Num_procsx(a.ranks) # 0
       \/ a.n % Num_procsy(a.ranks) # 0
       \/ a.R < 1
       \/ 2 * a.R + 1 > a.n

tileDomainUnclipped(n, Px, Py, R, tileX, tileY) ==
  Rect(tileX * (n \div Px) - R, tileY * (n \div Py) - R,
       (tileX + 1) * (n \div Px) + R - 1, (tileY + 1) * (n \div Py) + R - 1)

\* haloColoring[tilePoint]
tileDomain(n, Px, Py, R, tileX, tileY) ==
  LET tileSizeX == n \div Px
      tileSizeY == n \div Py
  IN  Rect(Max(tileX * tileSizeX - R, 0),
           Max(tileY * tileSizeY - R, 0),
           Min((tileX + 1) * tileSizeX + R, n) - 1,
           Min((tileY + 1) * tileSizeY + R, n) - 1)

(***************************************************************************)
(* createHaloPartition / createBoundaryPartition share the shrinking step. *)
(***************************************************************************)
\* for (i = 0; i < 2; ++i) { if (lo[i] != 0) lo[i] += RADIUS;
\*                           if (hi[i] != n - 1) hi[i] -= RADIUS; }
ShrinkBox(box, n, R) ==
  Rect(IF box.lo[1] # 0 THEN box.lo[1] + R ELSE box.lo[1],
       IF box.lo[2] # 0 THEN box.lo[2] + R ELSE box.lo[2],
       IF box.hi[1] # n - 1 THEN box.hi[1] - R ELSE box.hi[1],
       IF box.hi[2] # n - 1 THEN box.hi[2] - R ELSE box.hi[2])

createHaloPartition(haloBox, n, R) ==
  LET boundingBox == ShrinkBox(haloBox, n, R)
  IN  [color \in GHOST_LEFT .. PRIVATE |->
        CASE color = GHOST_LEFT ->
               IF boundingBox.lo[1] > 0
               THEN Rect(haloBox.lo[1], boundingBox.lo[2],
                         boundingBox.lo[1] - 1, boundingBox.hi[2])
               ELSE NoDomain
          [] color = GHOST_UP ->
               IF boundingBox.lo[2] > 0
               THEN Rect(boundingBox.lo[1], haloBox.lo[2],
                         boundingBox.hi[1], boundingBox.lo[2] - 1)
               ELSE NoDomain
          [] color = GHOST_RIGHT ->
               IF boundingBox.hi[1] < n - 1
               THEN Rect(boundingBox.hi[1] + 1, boundingBox.lo[2],
                         haloBox.hi[1], boundingBox.hi[2])
               ELSE NoDomain
          [] color = GHOST_DOWN ->
               IF boundingBox.hi[2] < n - 1
               THEN Rect(boundingBox.lo[1], boundingBox.hi[2] + 1,
                         boundingBox.hi[1], haloBox.hi[2])
               ELSE NoDomain
          [] OTHER -> boundingBox]

\* hasBoundary as createBoundaryPartition sets it (INTERIOR is never set)
boundaryFlags(boundingBox, n, R) ==
  LET interiorBox == ShrinkBox(boundingBox, n, R)
      l == interiorBox.lo[1] > 0
      u == interiorBox.lo[2] > 0
      r == interiorBox.hi[1] < n - 1
      d == interiorBox.hi[2] < n - 1
  IN  [color \in LEFT .. INTERIOR |->
        CASE color = LEFT -> l
          [] color = LEFT_UP -> l /\ u
          [] color = UP -> u
          [] color = UP_RIGHT -> u /\ r
          [] color = RIGHT -> r
          [] color = RIGHT_DOWN -> r /\ d
          [] color = DOWN -> d
          [] color = DOWN_LEFT -> d /\ l
          [] OTHER -> FALSE]

createBoundaryPartition(boundingBox, n, R) ==
  LET interiorBox == ShrinkBox(boundingBox, n, R)
      has == boundaryFlags(boundingBox, n, R)
  IN  [color \in LEFT .. INTERIOR |->
        IF color # INTERIOR /\ ~has[color] THEN NoDomain
        ELSE
        CASE color = LEFT ->
               Rect(boundingBox.lo[1], interiorBox.lo[2],
                    interiorBox.lo[1] - 1, interiorBox.hi[2])
          [] color = LEFT_UP ->
               Rect(boundingBox.lo[1], boundingBox.lo[2],
                    interiorBox.lo[1] - 1, interiorBox.lo[2] - 1)
          [] color = UP ->
               Rect(interiorBox.lo[1], boundingBox.lo[2],
                    interiorBox.hi[1], interiorBox.lo[2] - 1)
          [] color = UP_RIGHT ->
               Rect(interiorBox.hi[1] + 1, boundingBox.lo[2],
                    boundingBox.hi[1], interiorBox.lo[2] - 1)
          [] color = RIGHT ->
               Rect(interiorBox.hi[1] + 1, interiorBox.lo[2],
                    boundingBox.hi[1], interiorBox.hi[2])
          [] color = RIGHT_DOWN ->
               Rect(interiorBox.hi[1] + 1, interiorBox.hi[2] + 1,
                    boundingBox.hi[1], boundingBox.hi[2])
          [] color = DOWN ->
               Rect(interiorBox.lo[1], interiorBox.hi[2] + 1,
                    interiorBox.hi[1], boundingBox.hi[2])
          [] color = DOWN_LEFT ->
               Rect(boundingBox.lo[1], interiorBox.hi[2] + 1,
                    interiorBox.lo[1] - 1, boundingBox.hi[2])
          [] OTHER -> interiorBox]

(***************************************************************************)
(* createBalancedPartition: the loop over the colors, with its two         *)
(* assertions.  The result is [ok, bands]: ok is FALSE when an assertion   *)
(* failed, and bands then holds the bands coloured before it.              *)
(***************************************************************************)
BandWidth(color, offY, remainder) ==
  IF color < remainder THEN offY + 1 ELSE offY

BandAssert1Off(startY, rect) == TRUE

\* assert(startY < rect.hi[1])
BandAssert1(startY, rect) == startY < rect.hi[2]

\* assert(startY + widthY - 1 <= rect.hi[1])
BandAssert2(startY, widthY, rect) == startY + widthY - 1 <= rect.hi[2]

RECURSIVE BalancedLoop(_, _, _, _, _)
BalancedLoop(rect, numThreads, color, startY, bands) ==
  IF color >= numThreads THEN [ok |-> TRUE, bands |-> bands]
  ELSE
    LET sizeY     == rect.hi[2] - rect.lo[2] + 1
        offY      == CDiv(sizeY, numThreads)
        remainder == CMod(sizeY, numThreads)
        widthY    == BandWidth(color, offY, remainder)
    IN  IF ~(BandAssert1(startY, rect) /\ BandAssert2(startY, widthY, rect))
        THEN [ok |-> FALSE, bands |-> bands]
        ELSE BalancedLoop(rect, numThreads, color + 1, startY + widthY,
               Append(bands,
                      Rect(rect.lo[1], startY, rect.hi[1], startY + widthY - 1)))

createBalancedPartition(rect, numThreads) ==
  BalancedLoop(rect, numThreads, 0, rect.lo[2], <<>>)

(***************************************************************************)
(* The partitioner as a state machine: top_level_task reads and checks the *)
(* inputs and colours the tiles; one shard (any tile) then runs the set-up *)
(* of spmd_task, one partitioning call per step.                           *)
(***************************************************************************)
\* ranks is num_ranks: gasnet_nodes() >= 1, times <# numa nodes> when a
\* fourth argument is given (inputs.argc > 4), which may be 0
PartArgs ==
  {a \in [argc : 3 .. 5, n : 0 .. PartMaxN, ranks : 0 .. PartMaxRanks,
          threads : 0 .. PartMaxThreads, iterations : {0, 1},
          R : 0 .. PartMaxRadius] :
     a.ranks = 0 => a.argc > 4}

PartInit ==
  /\ pPc = "args"
  /\ pArgs \in PartArgs
  /\ pGrid = <<0, 0>>
  /\ pTile = <<0, 0>>
  /\ pHaloBox = NoDomain
  /\ pLocalLP = <<>>
  /\ pBoundaryLP = <<>>
  /\ pHasBoundary = <<>>
  /\ pPrivateLp = <<>>
  /\ pInteriorLp = <<>>
  /\ MapIdle
  /\ ProtoIdle
  /\ NumIdle
  /\ GridIdle
  /\ CallIdle

\* top_level_task up to the check of the radius: exit(EXIT_FAILURE), after
\* the usage line when inputs.argc < 4
PartReject ==
  /\ pPc = "args"
  /\ IF pArgs.argc < 4 THEN TRUE ELSE ParamsRejected(pArgs)
  /\ pPc' = "exit"
  /\ UNCHANGED <<pArgs, pGrid, pTile, pHaloBox, pLocalLP, pBoundaryLP,
                 pHasBoundary, pPrivateLp, pInteriorLp>>
  /\ UNCHANGED NotPart

\* top_level_task: n % Num_procsy with Num_procsy == 0 is undefined.  The
\* process dies of the division, or the remainder is some value: not zero
\* and the check exits, or zero and the run goes on to the radius checks
\* and then, with a grid of no tiles, to an epoch of no shards
PartModZero ==
  /\ pPc = "args"
  /\ pArgs.argc >= 4
  /\ ModByZero(pArgs)
  /\ \/ /\ pPc' = "crash"
        /\ pGrid' = pGrid
     \/ /\ pPc' = "exit"
        /\ pGrid' = pGrid
     \/ /\ pPc' = IF pArgs.R < 1 \/ 2 * pArgs.R + 1 > pArgs.n
                  THEN "exit" ELSE "notiles"
        /\ pGrid' = IF pArgs.R < 1 \/ 2 * pArgs.R + 1 > pArgs.n
                    THEN pGrid
                    ELSE <<Num_procsx(pArgs.ranks), Num_procsy(pArgs.ranks)>>
  /\ UNCHANGED <<pArgs, pTile, pHaloBox, pLocalLP, pBoundaryLP, pHasBoundary,
                 pPrivateLp, pInteriorLp>>
  /\ UNCHANGED NotPart

\* top_level_task: the inputs pass; the tile of one shard is coloured
PartLaunch ==
  /\ pPc = "args"
  /\ pArgs.argc >= 4
  /\ ~ModByZero(pArgs)
  /\ ~ParamsRejected(pArgs)
  /\ LET Px == Num_procsx(pArgs.ranks)
         Py == Num_procsy(pArgs.ranks)
     IN  /\ pGrid' = <<Px, Py>>
         /\ \E tileX \in 0 .. Px - 1, tileY \in 0 .. Py - 1 :
              /\ pTile' = <<tileX, tileY>>
              /\ pHaloBox' = tileDomain(pArgs.n, Px, Py, pArgs.R, tileX, tileY)
  /\ pPc' = "spmd"
  /\ UNCHANGED <<pArgs, pLocalLP, pBoundaryLP, pHasBoundary, pPrivateLp,
                 pInteriorLp>>
  /\ UNCHANGED NotPart

\* spmd_task: localLP = createHaloPartition(localLr, n, ...)
PartHalo ==
  /\ pPc = "spmd"
  /\ pLocalLP' = createHaloPartition(pHaloBox, pArgs.n, pArgs.R)
  /\ pPc' = "halo"
  /\ UNCHANGED <<pArgs, pGrid, pTile, pHaloBox, pBoundaryLP, pHasBoundary,
                 pPrivateLp, pInteriorLp>>
  /\ UNCHANGED NotPart

\* spmd_task: boundaryLP = createBoundaryPartition(privateLr, n, ..., hasBoundary)
PartBoundary ==
  /\ pPc = "halo"
  /\ pBoundaryLP' = createBoundaryPartition(pLocalLP[PRIVATE], pArgs.n, pArgs.R)
  /\ pHasBoundary' = boundaryFlags(pLocalLP[PRIVATE], pArgs.n, pArgs.R)
  /\ pPc' = "boundary"
  /\ UNCHANGED <<pArgs, pGrid, pTile, pHaloBox, pLocalLP, pPrivateLp,
                 pInteriorLp>>
  /\ UNCHANGED NotPart

\* spmd_task: privateLp = createBalancedPartition(privateLr, numThreads, ...)
PartSplitPrivate ==
  /\ pPc = "boundary"
  /\ LET res == createBalancedPartition(pLocalLP[PRIVATE], pArgs.threads)
     IN  /\ pPrivateLp' = res.bands
         /\ pPc' = IF res.ok THEN "private" ELSE "abort_private"
  /\ UNCHANGED <<pArgs, pGrid, pTile, pHaloBox, pLocalLP, pBoundaryLP,
                 pHasBoundary, pInteriorLp>>
  /\ UNCHANGED NotPart

\* spmd_task: interiorLp = createBalancedPartition(interiorLr, numThreads, ...)
PartSplitInterior ==
  /\ pPc = "private"
  /\ LET res == createBalancedPartition(pBoundaryLP[INTERIOR], pArgs.threads)
     IN  /\ pInteriorLp' = res.bands
         /\ pPc' = IF res.ok THEN "done" ELSE "abort_interior"
  /\ UNCHANGED <<pArgs, pGrid, pTile, pHaloBox, pLocalLP, pBoundaryLP,
                 pHasBoundary, pPrivateLp>>
  /\ UNCHANGED NotPart

PartNext ==
  \/ PartReject
  \/ PartModZero
  \/ PartLaunch
  \/ PartHalo
  \/ PartBoundary
  \/ PartSplitPrivate
  \/ PartSplitInterior

SpecPart == PartInit /\ [][PartNext]_vars

(***************************************************************************)
(* Claims about the partitioner, checked under SpecPart.                   *)
(***************************************************************************)
RECURSIVE SumHeights(_)
SumHeights(bands) ==
  IF bands = <<>> THEN 0
  ELSE (Head(bands).hi[2] - Head(bands).lo[2] + 1) + SumHeights(Tail(bands))

Height(r) == r.hi[2] - r.lo[2] + 1

\* the perimeter sectors that exist, and the interior
ExistingSectors == {c \in Boundaries : pHasBoundary[c]} \cup {INTERIOR}

PartAfterBoundary ==
  pPc \in {"boundary", "private", "abort_private", "done", "abort_interior"}

\* C4: once createBoundaryPartition has run for a tile of an accepted
\* configuration, the existing sectors (perimeter sectors with hasBoundary
\* set, plus the interior) are pairwise disjoint and their union is exactly
\* the tile's private box.
C4_SectorTiling ==
  PartAfterBoundary =>
    /\ UNION {Points(pBoundaryLP[c]) : c \in ExistingSectors}
         = Points(pLocalLP[PRIVATE])
    /\ \A c1, c2 \in ExistingSectors :
         c1 # c2 => Points(pBoundaryLP[c1]) \cap Points(pBoundaryLP[c2]) = {}

\* what createBalancedPartition is to produce for a region and a number of
\* workers: as many bands as workers, over the region's columns, contiguous
\* from rect.lo to rect.hi in increasing order, the first size % workers of
\* them one row higher than the rest
BalancedResult(rect, workers, ok, bands) ==
  LET size == Height(rect)
  IN  /\ ok
      /\ Len(bands) = workers
      /\ SumHeights(bands) = size
      /\ \A i, j \in 1 .. Len(bands) :
           /\ Height(bands[i]) - Height(bands[j]) <= 1
           /\ Height(bands[j]) - Height(bands[i]) <= 1
      /\ \A i \in 1 .. Len(bands) :
           /\ Height(bands[i]) =
                (size \div workers) + (IF i - 1 < size % workers THEN 1 ELSE 0)
           /\ bands[i].lo[1] = rect.lo[1]
           /\ bands[i].hi[1] = rect.hi[1]
           /\ bands[i].lo[2] =
                (IF i = 1 THEN rect.lo[2] ELSE bands[i - 1].hi[2] + 1)
      /\ bands[Len(bands)].hi[2] = rect.hi[2]

\* C5: for every region and worker count with workers <= size, each call of
\* createBalancedPartition (on the private region, then on the interior)
\* yields the balanced, contiguous, increasing row-bands covering [lo, hi].
C5_BalancedSplit ==
  /\ (pPc \in {"private", "abort_private", "done", "abort_interior"}
        /\ pArgs.threads <= Height(pLocalLP[PRIVATE]))
       => BalancedResult(pLocalLP[PRIVATE], pArgs.threads,
                         pPc # "abort_private", pPrivateLp)
  /\ (pPc \in {"done", "abort_interior"}
        /\ pArgs.threads <= Height(pBoundaryLP[INTERIOR]))
       => BalancedResult(pBoundaryLP[INTERIOR], pArgs.threads,
                         pPc # "abort_interior", pInteriorLp)


(***************************************************************************)
(* The placement policy: StencilMapper.                                    *)
(*                                                                         *)
(* A Processor is [node, k]: the k-th LOC processor of address space node. *)
(* A Memory is the number of the node whose system memory it is.           *)
(***************************************************************************)
NO_PROC == [node |-> -1, k |-> -1]
NO_MEMORY == -1

Proc(node, k) == [node |-> node, k |-> k]

\* StencilMapper::StencilMapper: proc_map[node_id], by position (0-based)
proc_map(machine, node) ==
  IF node \in 0 .. machine.nodes - 1
  THEN [k \in 0 .. machine.procs - 1 |-> Proc(node, k)]
  ELSE <<>>

\* num_nodes = max(num_nodes, node_id + 1) over all processors
num_nodes(machine) == machine.nodes

AllProcs(machine) ==
  {Proc(node, k) : node \in 0 .. machine.nodes - 1, k \in 0 .. machine.procs - 1}

\* all_sysmems[proc]: the system memory found for the processor; std::map's
\* operator[] yields a default Memory for a key that was never inserted
all_sysmems(machine, proc) ==
  IF proc \in AllProcs(machine) THEN proc.node ELSE NO_MEMORY

(***************************************************************************)
(* The must-epoch launch of top_level_task: task t is the shard of tile    *)
(* (t % Px, t / Px); its region requirements are its own region (slot 0)   *)
(* and one per existing neighbor in the order LEFT, UP, RIGHT, DOWN.       *)
(* A logical region is named by the task that owns it.                     *)
(***************************************************************************)
\* int offsets[][2] = { {-1, 0}, {0, -1}, {1, 0}, {0, 1} }
offsets(dir) ==
  CASE dir = GHOST_LEFT -> <<-1, 0>>
    [] dir = GHOST_UP -> <<0, -1>>
    [] dir = GHOST_RIGHT -> <<1, 0>>
    [] OTHER -> <<0, 1>>

\* #define flip(dir) (((dir) + 2) % 4)
flip(dir) == (dir + 2) % 4

TileX(Px, t) == t % Px
TileY(Px, t) == t \div Px
TileOf(Px, tileX, tileY) == tileY * Px + tileX

\* the test of top_level_task that skips a direction without a neighbor tile
launchHasNeighbor(Px, Py, t, dir) ==
  LET neighborX == TileX(Px, t) + offsets(dir)[1]
      neighborY == TileY(Px, t) + offsets(dir)[2]
  IN  ~(neighborX < 0 \/ neighborY < 0 \/ neighborX >= Px \/ neighborY >= Py)

neighborPoint(Px, t, dir) ==
  TileOf(Px, TileX(Px, t) + offsets(dir)[1], TileY(Px, t) + offsets(dir)[2])

RECURSIVE NeighborRegions(_, _, _, _)
NeighborRegions(Px, Py, t, dir) ==
  IF dir > GHOST_DOWN THEN <<>>
  ELSE (IF launchHasNeighbor(Px, Py, t, dir)
        THEN <<neighborPoint(Px, t, dir)>> ELSE <<>>)
       \o NeighborRegions(Px, Py, t, dir + 1)

\* spmdLauncher's region requirements: the regions, by slot (1-based here,
\* slot idx of the source is position idx + 1)
launchRegions(Px, Py, t) == <<t>> \o NeighborRegions(Px, Py, t, GHOST_LEFT)

\* every requirement <<task, idx>> of the launch, in launch and slot order
RECURSIVE ReqsFrom(_, _, _)
ReqsFrom(Px, Py, t) ==
  IF t >= Px * Py THEN <<>>
  ELSE [i \in 1 .. Len(launchRegions(Px, Py, t)) |-> <<t, i - 1>>]
       \o ReqsFrom(Px, Py, t + 1)

ReqRegion(Px, Py, req) == launchRegions(Px, Py, req[1])[req[2] + 1]

(***************************************************************************)
(* The constraints the runtime hands to map_must_epoch: one per pair of    *)
(* requirements of two tasks on the same logical region that its           *)
(* dependence analysis records, in the order it meets them.  Whether the   *)
(* runtime records a later requirement against every earlier one or only   *)
(* against the latest, and which of the two it names t1, is the runtime's  *)
(* choice: 'legion' fixes it.                                              *)
(***************************************************************************)
MkConstraint(legion, earlier, later) ==
  IF legion.swap
  THEN [t1 |-> later[1], idx1 |-> later[2], t2 |-> earlier[1], idx2 |-> earlier[2]]
  ELSE [t1 |-> earlier[1], idx1 |-> earlier[2], t2 |-> later[1], idx2 |-> later[2]]

RECURSIVE ConstraintsFrom(_, _, _, _, _)
ConstraintsFrom(legion, Px, Py, reqs, k) ==
  IF k > Len(reqs) THEN <<>>
  ELSE
    LET later == reqs[k]
        prior == SelectSeq(SubSeq(reqs, 1, k - 1),
                   LAMBDA e : ReqRegion(Px, Py, e) = ReqRegion(Px, Py, later))
        used  == IF legion.allPairs \/ prior = <<>> THEN prior
                 ELSE <<prior[Len(prior)]>>
    IN  [i \in 1 .. Len(used) |-> MkConstraint(legion, used[i], later)]
        \o ConstraintsFrom(legion, Px, Py, reqs, k + 1)

epochConstraints(legion, Px, Py) ==
  ConstraintsFrom(legion, Px, Py, ReqsFrom(Px, Py, 0), 1)

\* c.t->regions[c.idx].region
ConstraintRegion(grid, t, idx) == ReqRegion(grid[1], grid[2], <<t, idx>>)

(***************************************************************************)
(* map_must_epoch, one loop iteration per step.                            *)
(***************************************************************************)
\* int shards_per_node = tasks.size() / num_nodes
shards_per_node(ntasks, machine) == CDiv(ntasks, num_nodes(machine))

\* the processor *(proc_map[i / shards_per_node].begin() + i % shards_per_node)
\* names, when that element exists
epochProcNode(i, spn) == CDiv(i, spn)
epochProcIndex(i, spn) == CMod(i, spn)

\* (with fewer tasks than nodes shards_per_node is 0 and the expression
\* divides by zero: it names nothing)
epochProcExists(machine, i, spn) ==
  IF spn = 0 THEN FALSE
  ELSE /\ epochProcNode(i, spn) \in 0 .. machine.nodes - 1
       /\ epochProcIndex(i, spn) \in 0 .. machine.procs - 1

\* map_task: every region requirement gets the task's system memory pushed
\* to the back of its target_ranking
map_task(machine, ranking, t, nregions, target_proc) ==
  [req \in DOMAIN ranking |->
     IF req[1] = t /\ req[2] \in 0 .. nregions - 1
     THEN Append(ranking[req], all_sysmems(machine, target_proc))
     ELSE ranking[req]]

MapMachines ==
  [nodes : 1 .. MapMaxNodes, procs : 1 .. MapMaxProcs]

NTasks == mGrid[1] * mGrid[2]

MapInit ==
  /\ mPc = "assign"
  /\ mMachine \in MapMachines
  /\ mLegion \in [allPairs : BOOLEAN, swap : BOOLEAN]
  /\ \E numa \in 1 .. MapMaxNuma :
       LET ranks == mMachine.nodes * numa
           Px == Num_procsx(ranks)
           Py == Num_procsy(ranks)
       IN  /\ mGrid = <<Px, Py>>
           /\ mConstraints = epochConstraints(mLegion, Px, Py)
           /\ mRanking = [req \in {ReqsFrom(Px, Py, 0)[k] :
                                     k \in 1 .. Len(ReqsFrom(Px, Py, 0))} |-> <<>>]
  /\ mI = 0
  /\ mTargetProc = <<>>
  /\ mMappings = <<>>
  /\ PartIdle
  /\ ProtoIdle
  /\ NumIdle
  /\ GridIdle
  /\ CallIdle

\* the constraints of a list that have neither side at slot 0
deferredOnly(cs) == SelectSeq(cs, LAMBDA c : c.idx1 # 0 /\ c.idx2 # 0)

\* map_must_epoch as a method on its own: the runtime hands it the tasks of
\* an epoch, whose number the mapper does not relate to num_nodes (in this
\* program it is gasnet_nodes() * <# numa nodes>, a multiple of num_nodes
\* as long as every node has a LOC processor), and a list of constraints,
\* which the mapper does not check either: the list of the launch, or that
\* list without the constraints of the owners
EpochInit ==
  /\ mPc = "assign"
  /\ mMachine \in MapMachines
  /\ mLegion \in [allPairs : BOOLEAN, swap : BOOLEAN]
  /\ \E ranks \in 1 .. MapMaxNodes * MapMaxNuma :
       LET Px == Num_procsx(ranks)
           Py == Num_procsy(ranks)
       IN  /\ mGrid = <<Px, Py>>
           /\ mConstraints \in {epochConstraints(mLegion, Px, Py),
                                deferredOnly(epochConstraints(mLegion, Px, Py))}
           /\ mRanking = [req \in {ReqsFrom(Px, Py, 0)[k] :
                                     k \in 1 .. Len(ReqsFrom(Px, Py, 0))} |-> <<>>]
  /\ mI = 0
  /\ mTargetProc = <<>>
  /\ mMappings = <<>>
  /\ PartIdle
  /\ ProtoIdle
  /\ NumIdle
  /\ GridIdle
  /\ CallIdle

\* first loop of map_must_epoch, the element of proc_map exists
MapAssign ==
  /\ mPc = "assign"
  /\ mI < NTasks
  /\ LET spn == shards_per_node(NTasks, mMachine)
     IN  /\ epochProcExists(mMachine, mI, spn)
         /\ LET proc == proc_map(mMachine, epochProcNode(mI, spn))
                          [epochProcIndex(mI, spn)]
            IN  /\ mTargetProc' = Append(mTargetProc, proc)
                /\ mRanking' = map_task(mMachine, mRanking, mI,
                                 Len(launchRegions(mGrid[1], mGrid[2], mI)), proc)
  /\ mI' = mI + 1
  /\ UNCHANGED <<mPc, mMachine, mLegion, mGrid, mConstraints, mMappings>>
  /\ UNCHANGED NotMap

\* first loop of map_must_epoch, the iterator is past the end of the
\* processor list (or the list is that of a node that does not exist, or
\* shards_per_node is 0): dereferencing it is undefined; the read yields
\* some processor or an id that names none, or the process dies
MapAssignPastEnd ==
  /\ mPc = "assign"
  /\ mI < NTasks
  /\ ~epochProcExists(mMachine, mI, shards_per_node(NTasks, mMachine))
  /\ \/ /\ \E proc \in AllProcs(mMachine) \cup {NO_PROC} :
             /\ mTargetProc' = Append(mTargetProc, proc)
             /\ mRanking' = map_task(mMachine, mRanking, mI,
                              Len(launchRegions(mGrid[1], mGrid[2], mI)), proc)
        /\ mI' = mI + 1
        /\ mPc' = mPc
     \/ /\ mPc' = "crash"
        /\ UNCHANGED <<mI, mTargetProc, mRanking>>
  /\ UNCHANGED <<mMachine, mLegion, mGrid, mConstraints, mMappings>>
  /\ UNCHANGED NotMap

\* the first loop ends
MapAssignEnd ==
  /\ mPc = "assign"
  /\ mI = NTasks
  /\ mPc' = "pass1"
  /\ mI' = 0
  /\ UNCHANGED <<mMachine, mLegion, mGrid, mConstraints, mTargetProc,
                 mRanking, mMappings>>
  /\ UNCHANGED NotMap

\* (mutant of Pass1Memory: the memory of t1's processor whichever side is at
\* slot 0)
Pass1MemoryAlwaysT1(machine, target, c) ==
  all_sysmems(machine, target[c.t1 + 1])

\* the memory the second loop gives to both sides of constraint c: that of
\* t1's processor when idx1 == 0, else that of t2's when idx2 == 0
Pass1Memory(machine, target, c) ==
  IF c.idx1 = 0 THEN all_sysmems(machine, target[c.t1 + 1])
  ELSE all_sysmems(machine, target[c.t2 + 1])

\* the region the second loop records the memory for
Pass1Region(grid, c) ==
  IF c.idx1 = 0 THEN ConstraintRegion(grid, c.t1, c.idx1)
  ELSE ConstraintRegion(grid, c.t2, c.idx2)

\* (mutant of SetBoth: only the t1 side of the constraint is rewritten)
SetBothOnlyT1(ranking, c, mem) ==
  [req \in DOMAIN ranking |->
     IF req = <<c.t1, c.idx1>> THEN <<mem>> ELSE ranking[req]]

\* target_ranking.clear(); target_ranking.push_back(mem) on both sides of c
SetBoth(ranking, c, mem) ==
  [req \in DOMAIN ranking |->
     IF req = <<c.t1, c.idx1>> \/ req = <<c.t2, c.idx2>>
     THEN <<mem>> ELSE ranking[req]]

\* (mutant of Record: the second loop records no memory)
RecordNothing(mappings, region, mem) == mappings

\* mappings[region] = mem
Record(mappings, region, mem) ==
  [r \in DOMAIN mappings \cup {region} |->
     IF r = region THEN mem ELSE mappings[r]]

\* second loop: a constraint with a side at slot 0
MapPass1 ==
  /\ mPc = "pass1"
  /\ mI < Len(mConstraints)
  /\ LET c == mConstraints[mI + 1]
     IN  IF c.idx1 = 0 \/ c.idx2 = 0
         THEN /\ mRanking' = SetBoth(mRanking, c,
                               Pass1Memory(mMachine, mTargetProc, c))
              /\ mMappings' = Record(mMappings, Pass1Region(mGrid, c),
                                Pass1Memory(mMachine, mTargetProc, c))
         ELSE UNCHANGED <<mRanking, mMappings>>
  /\ mI' = mI + 1
  /\ UNCHANGED <<mPc, mMachine, mLegion, mGrid, mConstraints, mTargetProc>>
  /\ UNCHANGED NotMap

MapPass1End ==
  /\ mPc = "pass1"
  /\ mI = Len(mConstraints)
  /\ mPc' = "pass2"
  /\ mI' = 0
  /\ UNCHANGED <<mMachine, mLegion, mGrid, mConstraints, mTargetProc,
                 mRanking, mMappings>>
  /\ UNCHANGED NotMap

\* third loop: a constraint with neither side at slot 0 copies the memory
\* recorded for t1's region; assert(it != mappings.end())
MapPass2 ==
  /\ mPc = "pass2"
  /\ mI < Len(mConstraints)
  /\ LET c == mConstraints[mI + 1]
         region == ConstraintRegion(mGrid, c.t1, c.idx1)
     IN  IF c.idx1 # 0 /\ c.idx2 # 0
         THEN IF region \in DOMAIN mMappings
              THEN /\ mRanking' = SetBoth(mRanking, c, mMappings[region])
                   /\ mI' = mI + 1
                   /\ mPc' = mPc
              ELSE /\ mPc' = "abort"
                   /\ UNCHANGED <<mRanking, mI>>
         ELSE /\ mI' = mI + 1
              /\ UNCHANGED <<mRanking, mPc>>
  /\ UNCHANGED <<mMachine, mLegion, mGrid, mConstraints, mTargetProc,
                 mMappings>>
  /\ UNCHANGED NotMap

\* return false
MapReturn ==
  /\ mPc = "pass2"
  /\ mI = Len(mConstraints)
  /\ mPc' = "done"
  /\ UNCHANGED <<mMachine, mLegion, mGrid, mConstraints, mI, mTargetProc,
                 mRanking, mMappings>>
  /\ UNCHANGED NotMap

MapNext ==
  \/ MapAssign
  \/ MapAssignPastEnd
  \/ MapAssignEnd
  \/ MapPass1
  \/ MapPass1End
  \/ MapPass2
  \/ MapReturn

SpecMap == MapInit /\ [][MapNext]_vars

SpecEpoch == EpochInit /\ [][MapNext]_vars


(***************************************************************************)
(* Claims about the placement policy, checked under SpecMap.               *)
(***************************************************************************)
\* the memory of the processor of the shard that holds region at slot 0
OwnerMemory(region) == all_sysmems(mMachine, mTargetProc[region + 1])

ConstraintSet == {mConstraints[k] : k \in 1 .. Len(mConstraints)}

\* C9: when map_must_epoch returns, the two requirements of every constraint
\* have the same one-element target_ranking, and every requirement that a
\* constraint links to a logical region holds exactly the memory of the
\* processor of the shard that has that region at slot 0.
C9_CoScheduledAgreement ==
  mPc = "done" =>
    \A c \in ConstraintSet :
      LET region == ConstraintRegion(mGrid, c.t1, c.idx1)
      IN  /\ ConstraintRegion(mGrid, c.t2, c.idx2) = region
          /\ mRanking[<<c.t1, c.idx1>>] = mRanking[<<c.t2, c.idx2>>]
          /\ mRanking[<<c.t1, c.idx1>>] = <<OwnerMemory(region)>>
          /\ mRanking[<<region, 0>>] = <<OwnerMemory(region)>>

\* a deferred constraint (neither side at slot 0) was resolved to a memory
\* that is not the memory of either side's own processor
C9_Witness ==
  /\ mPc = "done"
  /\ \E c \in ConstraintSet :
       /\ c.idx1 # 0
       /\ c.idx2 # 0
       /\ mRanking[<<c.t1, c.idx1>>] = mRanking[<<c.t2, c.idx2>>]
       /\ \E t \in {c.t1, c.t2} :
            mRanking[<<c.t1, c.idx1>>]
              # <<all_sysmems(mMachine, mTargetProc[t + 1])>>
       /\ mTargetProc[c.t1 + 1] \in AllProcs(mMachine)
       /\ mTargetProc[c.t2 + 1] \in AllProcs(mMachine)

\* C10: map_must_epoch gives shard i the processor at index i mod
\* shardsPerNode of node i / shardsPerNode (shardsPerNode = totalShards /
\* nodeCount); once all shards are assigned, every node holds exactly
\* shardsPerNode shards and no processor holds two.
C10_PlacementAssignment ==
  /\ mPc # "crash"
  /\ mPc \in {"assign", "pass1", "pass2", "done", "abort"} =>
       LET spn == NTasks \div num_nodes(mMachine)
       IN  /\ \A i \in 0 .. Len(mTargetProc) - 1 :
                /\ mTargetProc[i + 1] = Proc(i \div spn, i % spn)
                /\ mTargetProc[i + 1] \in AllProcs(mMachine)
           /\ Len(mTargetProc) = NTasks =>
                /\ \A node \in 0 .. mMachine.nodes - 1 :
                     Cardinality({i \in 1 .. NTasks :
                                    mTargetProc[i].node = node}) = spn
                /\ \A i, j \in 1 .. NTasks :
                     i # j => mTargetProc[i] # mTargetProc[j]



(***************************************************************************)
(* The shards: top_level_task creates the phase barriers and launches one  *)
(* spmd_task per tile; each shard issues its operations in program order   *)
(* and the runtime runs an operation once the operations it depends on     *)
(* have finished and the barrier phases it waits on have triggered.        *)
(*                                                                         *)
(* A PhaseBarrier handle is [bar, phase]: the barrier and the generation   *)
(* the handle names.  An arrival made through a handle counts for the      *)
(* handle's phase; a wait made through a handle is for the completion of   *)
(* the phase before it, which is why the code advances before it waits.    *)
(***************************************************************************)
\* content of a field that was never written, and of a field that was read
\* while a writer was running
Uninit == -1
Mixed == -2

FullBar(t, dir) == <<"full", t, dir>>
EmptyBar(t, dir) == <<"empty", t, dir>>
LockBar == <<"lock", 0, 0>>
NO_BARRIER == [bar |-> <<"none", 0, 0>>, phase |-> 0]

Handle(b) == [bar |-> b, phase |-> 0]

\* runtime->advance_phase_barrier(ctx, h)
advance_phase_barrier(h) == [h EXCEPT !.phase = @ + 1]

barrierThresholdOne(b, num_ranks) == 1

\* create_phase_barrier(ctx, 1) for the links, (ctx, num_ranks) for the lock
barrierThreshold(b, num_ranks) == IF b = LockBar THEN num_ranks ELSE 1

\* every barrier top_level_task creates
createdBarriers(Px, Py) ==
  LET links == {td \in (0 .. Px * Py - 1) \X GhostDirs :
                  launchHasNeighbor(Px, Py, td[1], td[2])}
  IN  {LockBar} \cup {FullBar(td[1], td[2]) : td \in links}
                \cup {EmptyBar(td[1], td[2]) : td \in links}

\* args[tilePoint]: the barrier handles handed to the shard of tile t
spmdArgs(Px, Py, t) ==
  LET has(dir) == launchHasNeighbor(Px, Py, t, dir)
  IN  [fullOutput  |-> [dir \in GhostDirs |->
                         IF has(dir) THEN Handle(FullBar(t, dir))
                         ELSE NO_BARRIER],
       emptyOutput |-> [dir \in GhostDirs |->
                         IF has(dir) THEN Handle(EmptyBar(t, dir))
                         ELSE NO_BARRIER],
       fullInput   |-> [dir \in GhostDirs |->
                         IF has(dir)
                         THEN Handle(FullBar(neighborPoint(Px, t, dir), flip(dir)))
                         ELSE NO_BARRIER],
       emptyInput  |-> [dir \in GhostDirs |->
                         IF has(dir)
                         THEN Handle(EmptyBar(neighborPoint(Px, t, dir), flip(dir)))
                         ELSE NO_BARRIER],
       analysisLock |-> Handle(LockBar)]

\* hasNeighbor of spmd_task: read off the halo box, not off the tile grid
shardHasNeighbor(haloBox, n) ==
  [dir \in GhostDirs |->
     CASE dir = GHOST_LEFT -> haloBox.lo[1] # 0
       [] dir = GHOST_UP -> haloBox.lo[2] # 0
       [] dir = GHOST_RIGHT -> haloBox.hi[1] # n - 1
       [] OTHER -> haloBox.hi[2] # n - 1]

\* neighborLrs[dir] = regions[idx++] for the directions the shard believes in;
\* a slot past the end of 'regions' is NoRegion
NoRegion == -1

\* what a buffer or a ghost strip holds: <<tile, version>>, the tile whose
\* cells were copied and the number of increments they had received
Stamp(t, v) == <<t, v>>
Nothing == Stamp(NoRegion, Uninit)

RECURSIVE NeighborLrsFrom(_, _, _, _)
NeighborLrsFrom(regions, has, dir, idx) ==
  IF dir > GHOST_DOWN THEN <<>>
  ELSE IF has[dir]
       THEN <<IF idx + 1 <= Len(regions) THEN regions[idx + 1] ELSE NoRegion>>
            \o NeighborLrsFrom(regions, has, dir + 1, idx + 1)
       ELSE <<NoRegion>> \o NeighborLrsFrom(regions, has, dir + 1, idx)

neighborLrs(regions, has) ==
  LET seq == NeighborLrsFrom(regions, has, GHOST_LEFT, 1)
  IN  [dir \in GhostDirs |-> seq[dir + 1]]


(***************************************************************************)
(* Region requirements.  A requirement is [tree, path, field, write]: the  *)
(* region tree, the path from its root as <<partition, color>> steps, the  *)
(* field and whether the privilege writes.  An index launch over a         *)
(* partition names every color of it (AllColors).  All three partitions of *)
(* a shard are created DISJOINT_KIND, so the runtime takes two colors of   *)
(* one partition to be independent, and two partitions of one region to    *)
(* overlap.                                                                *)
(***************************************************************************)
AllColors == -1

Req(tree, path, field, write) ==
  [tree |-> tree, path |-> path, field |-> field, write |-> write]

localTree == <<"local", 0>>
weightTree == <<"weight", 0>>
bufferTree(dir) == <<"buffer", dir>>
neighborTree(dir) == <<"neighbor", dir>>

ghostLrs(dir) == <<<<"localLP", dir>>>>
privateLr == <<<<"localLP", PRIVATE>>>>
boundaryLrs(dir) == privateLr \o <<<<"boundaryLP", dir>>>>
interiorLr == privateLr \o <<<<"boundaryLP", INTERIOR>>>>
privateLp == privateLr \o <<<<"privateLp", AllColors>>>>
interiorLp == interiorLr \o <<<<"interiorLp", AllColors>>>>

RECURSIVE PathsOverlap(_, _)
PathsOverlap(p, q) ==
  IF p = <<>> \/ q = <<>> THEN TRUE
  ELSE IF Head(p)[1] # Head(q)[1] THEN TRUE
  ELSE IF Head(p)[2] = Head(q)[2] THEN PathsOverlap(Tail(p), Tail(q))
  ELSE Head(p)[2] = AllColors \/ Head(q)[2] = AllColors

\* the runtime orders two operations of one shard when this holds of two of
\* their requirements
Interfere(r1, r2) ==
  /\ r1.tree = r2.tree
  /\ r1.field = r2.field
  /\ r1.write \/ r2.write
  /\ PathsOverlap(r1.path, r2.path)

\* the requirements of each launch of spmd_task
\* (mutant of boundaryGhosts: a boundary launch names no ghost strip)
boundaryGhostsNone(dir) == {}

\* (mutant of boundaryGhosts: the loop over idx runs once for every sector)
boundaryGhostsSame(dir) == {dir \div 2}

\* the ghost strips a boundary launch of sector dir reads:
\* for (idx = 0; idx <= dir % 2; ++idx) ghostLrs[(dir / 2 + idx) % 4]
boundaryGhosts(dir) == {(dir \div 2 + idx) % 4 : idx \in 0 .. dir % 2}

ReqsOf(kind, dir) ==
  CASE kind = "init" ->
         {Req(localTree, privateLp, "FID_IN", TRUE),
          Req(localTree, privateLp, "FID_OUT", TRUE)}
    [] kind = "weight" -> {Req(weightTree, <<>>, "FID_WEIGHT", TRUE)}
    [] kind = "interior" ->
         {Req(localTree, privateLr, "FID_IN", FALSE),
          Req(localTree, interiorLp, "FID_OUT", TRUE),
          Req(weightTree, <<>>, "FID_WEIGHT", FALSE)}
    [] kind = "copy1" ->
         {Req(neighborTree(dir), <<>>, "FID_IN", FALSE),
          Req(bufferTree(dir), <<>>, "FID_IN", TRUE)}
    [] kind = "copy2" ->
         {Req(bufferTree(dir), <<>>, "FID_IN", FALSE),
          Req(localTree, ghostLrs(dir), "FID_IN", TRUE)}
    [] kind = "boundary" ->
         {Req(localTree, boundaryLrs(dir), "FID_OUT", TRUE),
          Req(weightTree, <<>>, "FID_WEIGHT", FALSE),
          Req(localTree, privateLr, "FID_IN", FALSE)}
         \cup {Req(localTree, ghostLrs(g), "FID_IN", FALSE) :
                 g \in boundaryGhosts(dir)}
    [] kind = "inc" -> {Req(localTree, privateLp, "FID_IN", TRUE)}
    [] kind = "check" -> {Req(localTree, privateLp, "FID_OUT", FALSE)}
    [] OTHER -> {}

\* an operation as issued: which launch, of which iteration and direction,
\* the handles it waits on and arrives at, the earlier operations of the
\* shard it is ordered after, and its status
Op(kind, iter, dir, waits, arrives) ==
  [kind |-> kind, iter |-> iter, dir |-> dir, waits |-> waits,
   arrives |-> arrives, deps |-> {}, st |-> "pending"]

DepsOf(issued, op) ==
  {i \in 1 .. Len(issued) :
     \E r1 \in ReqsOf(issued[i].kind, issued[i].dir),
        r2 \in ReqsOf(op.kind, op.dir) : Interfere(r1, r2)}

\* execute_task / execute_index_space / issue_copy_operation
Issue(issued, op) == Append(issued, [op EXCEPT !.deps = DepsOf(issued, op)])


(***************************************************************************)
(* The body of spmd_task's loop.  sh is [ops, args]: the operations the    *)
(* shard has issued and its barrier handles; each launch appends to ops    *)
(* and advances the handles it uses.                                       *)
(***************************************************************************)
analysis_lock_prev(args) == args.analysisLock
analysis_lock_next(args) == advance_phase_barrier(analysis_lock_prev(args))

LockWaitNever(args, iter) == {}

LockWait(args, iter) == IF iter = 0 THEN {analysis_lock_next(args)} ELSE {}

IssueInteriorLocked(sh, iter) ==
  [sh EXCEPT !.ops = Issue(@, Op("interior", iter, 0,
                                 {analysis_lock_next(sh.args)}, {}))]

\* the interior launch
IssueInterior(sh, iter) ==
  [sh EXCEPT !.ops = Issue(@, Op("interior", iter, 0,
                                 LockWait(sh.args, iter), {}))]

CopyWaitHandleStale(args, dir) == args.fullInput[dir]

\* which handle the neighbor copy waits on: fullInput[dir] after the advance
CopyWaitHandle(args, dir) == advance_phase_barrier(args.fullInput[dir])

IssueCopiesNoAdvance(sh, iter, dir) ==
  [sh EXCEPT !.ops =
     Issue(Issue(@, Op("copy1", iter, dir,
                       {CopyWaitHandle(sh.args, dir)} \cup LockWait(sh.args, iter),
                       {sh.args.emptyOutput[dir]})),
           Op("copy2", iter, dir, {}, {}))]

\* the two copies of one direction: neighbor -> buffer, buffer -> ghost
IssueCopies(sh, iter, dir) ==
  LET copy1 == Op("copy1", iter, dir,
                  {CopyWaitHandle(sh.args, dir)} \cup LockWait(sh.args, iter),
                  {sh.args.emptyOutput[dir]})
      copy2 == Op("copy2", iter, dir, {}, {})
  IN  [ops  |-> Issue(Issue(sh.ops, copy1), copy2),
       args |-> [sh.args EXCEPT
                   !.fullInput[dir] = advance_phase_barrier(@),
                   !.emptyOutput[dir] = advance_phase_barrier(@)]]

RECURSIVE IssueAllCopies(_, _, _, _)
IssueAllCopies(sh, iter, hasNeighbor, dir) ==
  IF dir > GHOST_DOWN THEN sh
  ELSE IssueAllCopies(IF hasNeighbor[dir] THEN IssueCopies(sh, iter, dir) ELSE sh,
                      iter, hasNeighbor, dir + 1)

\* the boundary launches, one per sector that exists
RECURSIVE IssueBoundaries(_, _, _, _)
IssueBoundaries(sh, iter, hasBoundary, dir) ==
  IF dir > DOWN_LEFT THEN sh
  ELSE IssueBoundaries(
         IF hasBoundary[dir]
         THEN [sh EXCEPT !.ops = Issue(@, Op("boundary", iter, dir,
                                             LockWait(sh.args, iter), {}))]
         ELSE sh,
         iter, hasBoundary, dir + 1)

IssueIncNoWait(sh, iter, hasNeighbor) ==
  LET dirs == {dir \in GhostDirs : hasNeighbor[dir]}
  IN  [ops  |-> Issue(sh.ops, Op("inc", iter, 0, {},
                                 {sh.args.fullOutput[dir] : dir \in dirs})),
       args |-> [sh.args EXCEPT
                   !.fullOutput = [dir \in GhostDirs |->
                      IF dir \in dirs THEN advance_phase_barrier(@[dir])
                      ELSE @[dir]]]]

\* the increment launch: waits on every emptyInput after its advance,
\* arrives at every fullOutput before its advance
IssueInc(sh, iter, hasNeighbor) ==
  LET dirs == {dir \in GhostDirs : hasNeighbor[dir]}
      inc  == Op("inc", iter, 0,
                 {advance_phase_barrier(sh.args.emptyInput[dir]) : dir \in dirs},
                 {sh.args.fullOutput[dir] : dir \in dirs})
  IN  [ops  |-> Issue(sh.ops, inc),
       args |-> [sh.args EXCEPT
                   !.emptyInput = [dir \in GhostDirs |->
                      IF dir \in dirs THEN advance_phase_barrier(@[dir])
                      ELSE @[dir]],
                   !.fullOutput = [dir \in GhostDirs |->
                      IF dir \in dirs THEN advance_phase_barrier(@[dir])
                      ELSE @[dir]]]]

\* one pass of 'for (int iter = 0; iter < numIterations; iter++)'
IssueIteration(sh, iter, geo) ==
  IssueInc(
    IssueBoundaries(
      IssueAllCopies(IssueInterior(sh, iter), iter, geo.hasNeighbor, GHOST_LEFT),
      iter, geo.hasBoundary, LEFT),
    iter, geo.hasNeighbor)

IssueInitLaunchNoAdvance(sh, hasNeighbor) ==
  LET dirs == {dir \in GhostDirs : hasNeighbor[dir]}
  IN  [ops  |-> Issue(sh.ops, Op("init", 0, 0, {},
                                 {sh.args.fullOutput[dir] : dir \in dirs})),
       args |-> sh.args]

\* the init launch: arrives at every fullOutput, then advances it
IssueInitLaunch(sh, hasNeighbor) ==
  LET dirs == {dir \in GhostDirs : hasNeighbor[dir]}
  IN  [ops  |-> Issue(sh.ops, Op("init", 0, 0, {},
                                 {sh.args.fullOutput[dir] : dir \in dirs})),
       args |-> [sh.args EXCEPT
                   !.fullOutput = [dir \in GhostDirs |->
                      IF dir \in dirs THEN advance_phase_barrier(@[dir])
                      ELSE @[dir]]]]

\* the set-up of spmd_task: the partitions and what the shard reads off them
shardSetup(a, Px, Py, t) ==
  LET haloBox  == tileDomain(a.n, Px, Py, a.R, TileX(Px, t), TileY(Px, t))
      localLP  == createHaloPartition(haloBox, a.n, a.R)
      boundary == createBoundaryPartition(localLP[PRIVATE], a.n, a.R)
      has      == shardHasNeighbor(haloBox, a.n)
  IN  [ok |-> /\ createBalancedPartition(localLP[PRIVATE], a.threads).ok
              /\ createBalancedPartition(boundary[INTERIOR], a.threads).ok,
       hasNeighbor |-> has,
       hasBoundary |-> boundaryFlags(localLP[PRIVATE], a.n, a.R),
       neighborLrs |-> neighborLrs(launchRegions(Px, Py, t), has)]

\* the whole loop, then the dummy launch that arrives at analysis_lock_prev
RECURSIVE IssueLoop(_, _, _, _)
IssueLoop(sh, iter, numIterations, geo) ==
  IF iter >= numIterations THEN sh
  ELSE IssueLoop(IssueIteration(sh, iter, geo), iter + 1, numIterations, geo)

IssueDummy(sh) ==
  [sh EXCEPT !.ops = Issue(@, Op("dummy", 0, 0, {},
                                 {analysis_lock_prev(sh.args)}))]

(***************************************************************************)
(* The shards as a state machine.  A step of a shard runs spmd_task from   *)
(* one blocking call (wait_all_results, get_void_result) to the next: the  *)
(* launches in between do not block and only append to the shard's own     *)
(* operations.                                                             *)
(***************************************************************************)
ProtoArgs ==
  [n : 1 .. ProtoMaxN, ranks : 1 .. ProtoMaxRanks,
   threads : 1 .. ProtoMaxThreads, iterations : 1 .. ProtoMaxIter,
   R : 1 .. ProtoMaxRadius]

Shards == 0 .. xGrid[1] * xGrid[2] - 1

ProtoInit ==
  /\ xPc = "args"
  /\ xArgs \in ProtoArgs
  /\ xGrid = <<0, 0>>
  /\ shPc = <<>>
  /\ shGeo = <<>>
  /\ shBar = <<>>
  /\ ops = <<>>
  /\ bar = <<>>
  /\ inVer = <<>>
  /\ writing = <<>>
  /\ inflight = <<>>
  /\ buf = <<>>
  /\ ghost = <<>>
  /\ nWaits = <<>>
  /\ lastWait = <<>>
  /\ PartIdle
  /\ MapIdle
  /\ NumIdle
  /\ GridIdle
  /\ CallIdle

\* top_level_task: one of the checks of the inputs fails
ProtoReject ==
  /\ xPc = "args"
  /\ ParamsRejected(xArgs)
  /\ xPc' = "exit"
  /\ UNCHANGED <<xArgs, xGrid, shPc, shGeo, shBar, ops, bar, inVer,
                 writing, inflight, buf, ghost, nWaits, lastWait>>
  /\ UNCHANGED NotProto

\* top_level_task: the barriers are created and the must-epoch is launched
ProtoLaunch ==
  /\ xPc = "args"
  /\ ~ParamsRejected(xArgs)
  /\ LET Px == Num_procsx(xArgs.ranks)
         Py == Num_procsy(xArgs.ranks)
         T  == 0 .. Px * Py - 1
         B  == createdBarriers(Px, Py)
     IN  /\ xGrid' = <<Px, Py>>
         /\ shPc' = [t \in T |-> "setup"]
         /\ shGeo' = [t \in T |-> <<>>]
         /\ shBar' = [t \in T |-> spmdArgs(Px, Py, t)]
         /\ ops' = [t \in T |-> <<>>]
         /\ bar' = [b \in B |-> [ph \in 0 .. xArgs.iterations |-> 0]]
         /\ inVer' = [t \in T |-> Uninit]
         /\ writing' = [t \in T |-> 0]
         /\ inflight' = [t \in T |-> [dir \in GhostDirs |-> Nothing]]
         /\ buf' = [t \in T |-> [dir \in GhostDirs |-> Nothing]]
         /\ ghost' = [t \in T |-> [dir \in GhostDirs |-> Nothing]]
         /\ nWaits' = [b \in B |-> 0]
         /\ lastWait' = [b \in B |-> -1]
  /\ xPc' = "run"
  /\ UNCHANGED xArgs
  /\ UNCHANGED NotProto

\* top_level_task: fullBarriers[tilePoint] and emptyBarriers[tilePoint] are
\* vectors of size 0 (reserve(4) leaves them empty), and the loops assign
\* to and read their elements [dir]: undefined behaviour as soon as one tile
\* has a neighbor.  A build either uses the reserved storage, which is
\* ProtoLaunch, or checks the index and ends the process, which is this.
ProtoWireCrash ==
  /\ xPc = "args"
  /\ ~ParamsRejected(xArgs)
  /\ \E t \in 0 .. xArgs.ranks - 1 : \E dir \in GhostDirs :
       launchHasNeighbor(Num_procsx(xArgs.ranks), Num_procsy(xArgs.ranks),
                         t, dir)
  /\ xPc' = "crash"
  /\ UNCHANGED <<xArgs, xGrid, shPc, shGeo, shBar, ops, bar, inVer,
                 writing, inflight, buf, ghost, nWaits, lastWait>>
  /\ UNCHANGED NotProto

\* (mutant of Finished: wait_all_results returns at once)
FinishedAtOnce(issued, kind) == TRUE

\* has the latest launch of this kind finished?
Finished(issued, kind) ==
  LET mine == {i \in 1 .. Len(issued) : issued[i].kind = kind}
  IN  \A i \in mine : (\A j \in mine : j <= i) => issued[i].st = "done"

\* spmd_task up to the first wait: the partitions (a failed assert of
\* createBalancedPartition ends the process) and the init launch
Setup ==
  \E s \in Shards :
      /\ xPc = "run"
      /\ shPc[s] = "setup"
      /\ LET geo == shardSetup(xArgs, xGrid[1], xGrid[2], s)
             sh  == IssueInitLaunch([ops |-> ops[s], args |-> shBar[s]],
                                    geo.hasNeighbor)
         IN  IF geo.ok
             THEN /\ shGeo' = [shGeo EXCEPT ![s] = geo]
                  /\ ops' = [ops EXCEPT ![s] = sh.ops]
                  /\ shBar' = [shBar EXCEPT ![s] = sh.args]
                  /\ shPc' = [shPc EXCEPT ![s] = "init_wait"]
                  /\ xPc' = xPc
             ELSE /\ xPc' = "abort"
                  /\ UNCHANGED <<shGeo, shPc, ops, shBar>>
      /\ UNCHANGED <<xArgs, xGrid, bar, inVer, writing, inflight, buf, ghost,
                     nWaits, lastWait>>
      /\ UNCHANGED NotProto

\* the init launch has finished: the weights are launched
AfterInit ==
  \E s \in Shards :
      /\ xPc = "run"
      /\ shPc[s] = "init_wait"
      /\ Finished(ops[s], "init")
      /\ ops' = [ops EXCEPT ![s] = Issue(@, Op("weight", 0, 0, {}, {}))]
      /\ shPc' = [shPc EXCEPT ![s] = "weight_wait"]
      /\ UNCHANGED <<xPc, xArgs, xGrid, shGeo, shBar, bar, inVer, writing,
                     inflight, buf, ghost, nWaits, lastWait>>
      /\ UNCHANGED NotProto

\* the weights are written: the loop issues every iteration, then the dummy
AfterWeight ==
  \E s \in Shards :
      /\ xPc = "run"
      /\ shPc[s] = "weight_wait"
      /\ Finished(ops[s], "weight")
      /\ LET sh == IssueDummy(IssueLoop([ops |-> ops[s], args |-> shBar[s]],
                                        0, xArgs.iterations, shGeo[s]))
         IN  /\ ops' = [ops EXCEPT ![s] = sh.ops]
             /\ shBar' = [shBar EXCEPT ![s] = sh.args]
      /\ shPc' = [shPc EXCEPT ![s] = "dummy_wait"]
      /\ UNCHANGED <<xPc, xArgs, xGrid, shGeo, bar, inVer, writing,
                     inflight, buf, ghost, nWaits, lastWait>>
      /\ UNCHANGED NotProto

\* the dummy and the last increment have finished: the check is launched
AfterLoop ==
  \E s \in Shards :
      /\ xPc = "run"
      /\ shPc[s] = "dummy_wait"
      /\ Finished(ops[s], "dummy")
      /\ Finished(ops[s], "inc")
      /\ ops' = [ops EXCEPT ![s] = Issue(@, Op("check", 0, 0, {}, {}))]
      /\ shPc' = [shPc EXCEPT ![s] = "check_wait"]
      /\ UNCHANGED <<xPc, xArgs, xGrid, shGeo, shBar, bar, inVer, writing,
                     inflight, buf, ghost, nWaits, lastWait>>
      /\ UNCHANGED NotProto

\* the check has finished: the shard returns
Return ==
  \E s \in Shards :
      /\ xPc = "run"
      /\ shPc[s] = "check_wait"
      /\ Finished(ops[s], "check")
      /\ shPc' = [shPc EXCEPT ![s] = "done"]
      /\ UNCHANGED <<xPc, xArgs, xGrid, shGeo, shBar, ops, bar, inVer,
                     writing, inflight, buf, ghost, nWaits, lastWait>>
      /\ UNCHANGED NotProto

\* fm.wait_all_results() of top_level_task: every shard has returned
ProtoJoin ==
  /\ xPc = "run"
  /\ \A s \in Shards : shPc[s] = "done"
  /\ xPc' = "joined"
  /\ UNCHANGED <<xArgs, xGrid, shPc, shGeo, shBar, ops, bar, inVer,
                 writing, inflight, buf, ghost, nWaits, lastWait>>
  /\ UNCHANGED NotProto

(***************************************************************************)
(* The runtime's side: an issued operation starts once everything it is    *)
(* ordered after has finished and every phase it waits on has triggered;   *)
(* when it finishes, its arrivals are counted.  The launches that touch    *)
(* the cells another shard copies from (init, inc) and the copy that reads *)
(* them (copy1) take two steps, start and finish; the other launches work  *)
(* on regions of their own shard only, where the runtime already orders    *)
(* every conflicting pair, and take one step.                              *)
(***************************************************************************)
\* a wait through handle h is for the phase before h's
WaitSatisfied(h) ==
  IF h.bar \notin DOMAIN bar \/ h.phase - 1 < 0 THEN TRUE
  ELSE bar[h.bar][h.phase - 1] >= barrierThreshold(h.bar, xArgs.ranks)

\* add_arrival_barrier: the launch arrives once at each handle when it ends
Arrive(counts, arrives) ==
  [b \in DOMAIN counts |->
     [ph \in DOMAIN counts[b] |->
        counts[b][ph]
          + Cardinality({h \in arrives : h.bar = b /\ h.phase = ph})]]

TwoStep == {"init", "inc", "copy1"}

\* the copies neighbor -> buffer that are running and read tile t
ReadersOf(t) ==
  {sd \in Shards \X GhostDirs :
     /\ shGeo[sd[1]] # <<>>
     /\ shGeo[sd[1]].neighborLrs[sd[2]] = t
     /\ \E i \in 1 .. Len(ops[sd[1]]) :
          /\ ops[sd[1]][i].kind = "copy1"
          /\ ops[sd[1]][i].dir = sd[2]
          /\ ops[sd[1]][i].st = "running"}

\* what a copy that starts now reads from the private cells of region t
ReadIn(t) ==
  IF t = NoRegion THEN Nothing
  ELSE IF writing[t] > 0 THEN Stamp(t, Mixed)
  ELSE Stamp(t, inVer[t])

Ready(s, i) ==
  /\ xPc = "run"
  /\ i \in 1 .. Len(ops[s])
  /\ ops[s][i].st = "pending"
  /\ \A j \in ops[s][i].deps : ops[s][j].st = "done"
  /\ \A h \in ops[s][i].waits : WaitSatisfied(h)

\* the waits of the operation are observed
Observe(op) ==
  LET waited == {h \in op.waits : h.bar \in DOMAIN bar}
  IN  /\ nWaits' = [b \in DOMAIN nWaits |->
                      nWaits[b] + Cardinality({h \in waited : h.bar = b})]
      /\ lastWait' = [b \in DOMAIN lastWait |->
                        IF \E h \in waited : h.bar = b
                        THEN (CHOOSE h \in waited : h.bar = b).phase - 1
                        ELSE lastWait[b]]

Start ==
  \E s \in Shards : \E i \in 1 .. Len(ops[s]) :
      /\ Ready(s, i)
      /\ ops[s][i].kind \in TwoStep
      /\ ops' = [ops EXCEPT ![s][i].st = "running"]
      /\ Observe(ops[s][i])
      /\ IF ops[s][i].kind = "copy1"
         THEN /\ inflight' = [inflight EXCEPT ![s][ops[s][i].dir] =
                                ReadIn(shGeo[s].neighborLrs[ops[s][i].dir])]
              /\ UNCHANGED writing
         ELSE /\ writing' = [writing EXCEPT ![s] = @ + 1]
              /\ inflight' = [a \in DOMAIN inflight |->
                                [dir \in GhostDirs |->
                                   IF <<a, dir>> \in ReadersOf(s)
                                   THEN Stamp(s, Mixed)
                                   ELSE inflight[a][dir]]]
      /\ UNCHANGED <<xPc, xArgs, xGrid, shPc, shGeo, shBar, bar, inVer,
                     buf, ghost>>
      /\ UNCHANGED NotProto

Finish ==
  \E s \in Shards : \E i \in 1 .. Len(ops[s]) :
      /\ xPc = "run"
      /\ i \in 1 .. Len(ops[s])
      /\ ops[s][i].st = "running"
      /\ ops' = [ops EXCEPT ![s][i].st = "done"]
      /\ bar' = Arrive(bar, ops[s][i].arrives)
      /\ IF ops[s][i].kind = "copy1"
         THEN /\ buf' = [buf EXCEPT ![s][ops[s][i].dir] = inflight[s][ops[s][i].dir]]
              /\ inflight' = [inflight EXCEPT ![s][ops[s][i].dir] = Nothing]
              /\ UNCHANGED <<inVer, writing>>
         ELSE /\ inVer' = [inVer EXCEPT ![s] =
                             IF ops[s][i].kind = "init" THEN 0 ELSE @ + 1]
              /\ writing' = [writing EXCEPT ![s] = @ - 1]
              /\ UNCHANGED <<buf, inflight>>
      /\ UNCHANGED <<xPc, xArgs, xGrid, shPc, shGeo, shBar, ghost, nWaits,
                     lastWait>>
      /\ UNCHANGED NotProto

Run ==
  \E s \in Shards : \E i \in 1 .. Len(ops[s]) :
      /\ Ready(s, i)
      /\ ops[s][i].kind \notin TwoStep
      /\ ops' = [ops EXCEPT ![s][i].st = "done"]
      /\ Observe(ops[s][i])
      /\ bar' = Arrive(bar, ops[s][i].arrives)
      /\ ghost' = IF ops[s][i].kind = "copy2"
                  THEN [ghost EXCEPT ![s][ops[s][i].dir] = buf[s][ops[s][i].dir]]
                  ELSE ghost
      /\ UNCHANGED <<xPc, xArgs, xGrid, shPc, shGeo, shBar, inVer, writing,
                     inflight, buf>>
      /\ UNCHANGED NotProto

ProtoNext ==
  \/ ProtoReject
  \/ ProtoLaunch
  \/ ProtoWireCrash
  \/ ProtoJoin
  \/ Setup
  \/ AfterInit
  \/ AfterWeight
  \/ AfterLoop
  \/ Return
  \/ Start
  \/ Finish
  \/ Run

SpecProto == ProtoInit /\ [][ProtoNext]_vars

\* the same under fair scheduling: the runtime runs every operation that is
\* ready, and every shard that can go on does
SpecProtoFair == ProtoInit /\ [][ProtoNext]_vars /\ WF_vars(ProtoNext)

ProtoTypeOK ==
  xPc \in {"run", "joined", "abort"} =>
    \A s \in Shards : \A i \in 1 .. Len(ops[s]) :
      /\ \A h \in ops[s][i].waits \cup ops[s][i].arrives : h.bar \in DOMAIN bar
      /\ \A h \in ops[s][i].arrives : h.phase \in 0 .. xArgs.iterations


(***************************************************************************)
(* Properties of the exchange.                                             *)
(***************************************************************************)
OpsOf(s, kind, iter, dir) ==
  {i \in 1 .. Len(ops[s]) :
     ops[s][i].kind = kind /\ ops[s][i].iter = iter /\ ops[s][i].dir = dir}

Begun(s, kind, iter, dir) ==
  \E i \in OpsOf(s, kind, iter, dir) : ops[s][i].st # "pending"

Done(s, kind, iter, dir) ==
  \E i \in OpsOf(s, kind, iter, dir) : ops[s][i].st = "done"

Iterations == 0 .. xArgs.iterations - 1

\* the links: A has the neighbor tile B in direction dir
Links ==
  {l \in Shards \X GhostDirs : launchHasNeighbor(xGrid[1], xGrid[2], l[1], l[2])}

Neighbor(l) == neighborPoint(xGrid[1], l[1], l[2])

\* B's data for iteration k is final: its init for k = 0, else its
\* increment of iteration k - 1
FullArrival(B, k) ==
  IF k = 0 THEN Done(B, "init", 0, 0) ELSE Done(B, "inc", k - 1, 0)

\* C1 (exchange ordering): on every link (A, d) with neighbor B and in every
\* iteration k, (a) A's copy neighbor -> buffer has begun only if B's k-th
\* 'full' arrival on the link was made (B's init for k = 0, B's increment of
\* iteration k - 1 otherwise), and (b) B's increment of iteration k has
\* begun only if A's copy of iteration k has finished and arrived at the
\* link's 'empty' barrier.
C1_ExchangeOrdering ==
  \A l \in Links : \A k \in Iterations :
    /\ Begun(l[1], "copy1", k, l[2]) =>
         /\ FullArrival(Neighbor(l), k)
         /\ bar[FullBar(Neighbor(l), flip(l[2]))][k] >= 1
    /\ Begun(Neighbor(l), "inc", k, 0) =>
         /\ Done(l[1], "copy1", k, l[2])
         /\ bar[EmptyBar(l[1], l[2])][k] >= 1

\* both halves happen in an iteration after the first, on a tile between two
\* neighbors
C1_Witness ==
  \E l \in Links :
    /\ Cardinality({m \in Links : m[1] = Neighbor(l)}) = 2
    /\ Begun(l[1], "copy1", 1, l[2])
    /\ Begun(Neighbor(l), "inc", 1, 0)

\* C2 (neighbor symmetry): once the exchange round of iteration k on link
\* (A, d) is over, and until the next round's copy lands, A's ghost strip d
\* holds the cells of neighbor B with exactly k increments applied: never
\* another tile's cells, a mixture, or a stale value; the same for the buffer
\* between the two copies.
C2_NeighborSymmetry ==
  \A l \in Links : \A k \in Iterations :
    /\ (Done(l[1], "copy2", k, l[2]) /\ ~Done(l[1], "copy2", k + 1, l[2])) =>
         ghost[l[1]][l[2]] = Stamp(Neighbor(l), k)
    /\ (Done(l[1], "copy1", k, l[2]) /\ ~Done(l[1], "copy1", k + 1, l[2])) =>
         buf[l[1]][l[2]] = Stamp(Neighbor(l), k)

C2_Witness ==
  \E l \in Links :
    /\ Done(l[1], "copy2", 1, l[2])
    /\ ghost[l[1]][l[2]] = Stamp(Neighbor(l), 1)
    /\ inVer[Neighbor(l)] = 2

\* C3 (first-iteration gating): no interior launch, neighbor copy or
\* boundary launch of iteration 0 has begun unless the startup barrier has
\* counted Px * Py arrivals, one from the dummy launch of every shard.
C3_FirstIterationGating ==
  \A s \in Shards :
    (\E i \in 1 .. Len(ops[s]) :
       /\ ops[s][i].kind \in {"interior", "copy1", "boundary"}
       /\ ops[s][i].iter = 0
       /\ ops[s][i].st # "pending")
    => /\ bar[LockBar][0] = xGrid[1] * xGrid[2]
       /\ \A t \in Shards : Done(t, "dummy", 0, 0)

C3_Witness ==
  /\ xGrid[1] * xGrid[2] = 3
  /\ \E s \in Shards : Begun(s, "interior", 0, 0)
  /\ \E l \in Links : Begun(l[1], "copy1", 0, l[2])
  /\ \E s \in Shards : \E dir \in Boundaries : Begun(s, "boundary", 0, dir)

\* the launches that have finished and arrive through a handle of phase ph
ArrivalsMade(b, ph) ==
  UNION {{<<s, i>> : i \in {j \in 1 .. Len(ops[s]) :
                              /\ ops[s][j].st = "done"
                              /\ [bar |-> b, phase |-> ph] \in ops[s][j].arrives}} :
           s \in Shards}

InStep(b) ==
  /\ lastWait[b] = nWaits[b] - 1
  /\ \A ph \in 0 .. lastWait[b] :
       bar[b][ph] = barrierThreshold(b, xArgs.ranks)

\* C7 (barrier phase monotonicity) as written: on every barrier, the startup
\* barrier included, successive waits observe the phases 0, 1, 2, ... in
\* steps of exactly one, none skipped and none repeated.
C7_AsWritten == \A b \in DOMAIN bar : InStep(b)

\* C7 (barrier phase monotonicity): on each link's full and empty barrier
\* successive waits observe the phases 0, 1, 2, ... in steps of exactly one,
\* none skipped and none repeated; the startup barrier has the single phase
\* 0, which every wait on it observes, after its round of Px * Py arrivals.
C7_PhaseMonotonicity ==
  /\ \A b \in DOMAIN bar \ {LockBar} : InStep(b)
  /\ xPc \in {"run", "joined", "abort"} =>
       /\ lastWait[LockBar] \in {-1, 0}
       /\ nWaits[LockBar] > 0 =>
            /\ lastWait[LockBar] = 0
            /\ bar[LockBar][0] = xGrid[1] * xGrid[2]

C7_Witness ==
  /\ xPc = "joined"
  /\ xGrid[1] * xGrid[2] = 3
  /\ \A b \in DOMAIN bar \ {LockBar} : nWaits[b] = 2 /\ lastWait[b] = 1
  /\ nWaits[LockBar] > 3


(***************************************************************************)
(* The fields.  Each tile has one instance over its halo box that holds    *)
(* FID_IN and FID_OUT; the tasks address it through raw pointers with the  *)
(* row stride haloX.  The weights 1 / (2 * k * R) are kept exactly, in     *)
(* units of 1 / (2 * R * Lcm(R)), and so is FID_OUT; FID_IN holds          *)
(* integers.  A cell that was never written holds Garbage, and so does     *)
(* whatever is computed from it.  The launches of one iteration run here   *)
(* in program order, all tiles at once: an order the exchange allows.      *)
(***************************************************************************)
COEFX == 1
COEFY == 1

\* the content of memory nobody wrote: no value the arithmetic can produce
Garbage == -1000000

\* what the centre word of a fresh weight instance may hold: zero, or not
Residues == {0, 1}

Lcm(R) == CHOOSE m \in 1 .. 60 : /\ \A k \in 1 .. R : m % k = 0
                                 /\ \A l \in 1 .. m - 1 : \E k \in 1 .. R : l % k # 0

Scale(R) == 2 * R * Lcm(R)

\* init_weight_task: every point but <<0, 0>> is written
init_weight_task(w, R) ==
  [p \in DOMAIN w |->
     IF p[2] = 0 THEN (IF p[1] = 0 THEN w[p] ELSE CDiv(Lcm(R), p[1]))
     ELSE IF p[1] = 0 THEN CDiv(Lcm(R), p[2])
     ELSE 0]

\* the regions of the shard of tile t
shardRegions(a, Px, Py, t) ==
  LET haloBox  == tileDomain(a.n, Px, Py, a.R, TileX(Px, t), TileY(Px, t))
      localLP  == createHaloPartition(haloBox, a.n, a.R)
      boundary == createBoundaryPartition(localLP[PRIVATE], a.n, a.R)
  IN  [haloBox |-> haloBox, localLP |-> localLP, boundaryLP |-> boundary,
       privateLp |-> createBalancedPartition(localLP[PRIVATE], a.threads).bands,
       interiorLp |-> createBalancedPartition(boundary[INTERIOR], a.threads).bands]

\* ptr[(j) * haloX + i] with ptr at rect.lo: the cell that global (x, y)
\* lands on, or Garbage when the address is outside the instance
RawRead(mem, haloBox, x, y) ==
  LET haloX == haloBox.hi[1] - haloBox.lo[1] + 1
      haloY == haloBox.hi[2] - haloBox.lo[2] + 1
      lin   == (y - haloBox.lo[2]) * haloX + (x - haloBox.lo[1])
  IN  IF lin < 0 \/ lin >= haloX * haloY THEN Garbage
      ELSE mem[<<haloBox.lo[1] + (lin % haloX), haloBox.lo[2] + (lin \div haloX)>>]

VAdd(a, b) == IF a = Garbage \/ b = Garbage THEN Garbage ELSE a + b

\* the sum of weight * value over a sequence of <<weight, value>>
RECURSIVE Dot(_)
Dot(seq) ==
  IF seq = <<>> THEN 0
  ELSE IF Head(seq)[2] = Garbage THEN Garbage
  ELSE VAdd(Head(seq)[1] * Head(seq)[2], Dot(Tail(seq)))

\* what one pass of stencil's loop body adds to OUT at (x, y)
stencil(w, R, mem, haloBox, x, y) ==
  Dot([k \in 1 .. 4 * R + 1 |->
         IF k <= 2 * R + 1
         THEN <<w[<<0, k - R - 1>>], RawRead(mem, haloBox, x, y + (k - R - 1))>>
         ELSE LET m  == k - (2 * R + 1)
                  ii == IF m <= R THEN m - R - 1 ELSE m - R
              IN  <<w[<<ii, 0>>], RawRead(mem, haloBox, x + ii, y)>>])

\* interior_task / boundary_task: the cells of rect the stencil is run on
ComputeCells(rect, n, R) ==
  Points(Rect(IF rect.lo[1] = 0 THEN rect.lo[1] + R ELSE rect.lo[1],
              IF rect.lo[2] = 0 THEN rect.lo[2] + R ELSE rect.lo[2],
              IF rect.hi[1] = n - 1 THEN rect.hi[1] - R ELSE rect.hi[1],
              IF rect.hi[2] = n - 1 THEN rect.hi[2] - R ELSE rect.hi[2]))

\* FID_OUT of a tile after the stencil ran once on each of the rects
RunStencil(w, a, out, in, haloBox, rects) ==
  [p \in DOMAIN out |->
     LET hits == Cardinality({k \in DOMAIN rects :
                                p \in ComputeCells(rects[k], a.n, a.R)})
     IN  IF hits = 0 THEN out[p]
         ELSE LET sum == stencil(w, a.R, in, haloBox, p[1], p[2])
              IN  VAdd(out[p], IF sum = Garbage THEN Garbage ELSE hits * sum)]

\* the rects of the boundary sectors that exist
SectorRects(a, reg) ==
  LET has == boundaryFlags(reg.localLP[PRIVATE], a.n, a.R)
  IN  [c \in {d \in Boundaries : has[d]} |-> reg.boundaryLP[c]]

InBands(bands, p) == \E k \in DOMAIN bands : p \in Points(bands[k])


(***************************************************************************)
(* The computation as a state machine.                                     *)
(***************************************************************************)
NumArgs ==
  [n : 1 .. NumMaxN, ranks : 1 .. NumMaxRanks, threads : 1 .. NumMaxThreads,
   iterations : 1 .. NumMaxIter, R : 1 .. NumMaxRadius]

NumTiles == 0 .. nArgs.ranks - 1

NumGeo(t) ==
  shardSetup(nArgs, Num_procsx(nArgs.ranks), Num_procsy(nArgs.ranks), t)

NumReg(t) ==
  shardRegions(nArgs, Num_procsx(nArgs.ranks), Num_procsy(nArgs.ranks), t)

NumInit ==
  /\ nPc = "args"
  /\ nArgs \in NumArgs
  /\ nIter = 0
  /\ nW = <<>>
  /\ nIn = <<>>
  /\ nOut = <<>>
  /\ nErr = <<>>
  /\ PartIdle
  /\ MapIdle
  /\ ProtoIdle
  /\ GridIdle
  /\ CallIdle

\* top_level_task: one of the checks of the inputs fails
NumReject ==
  /\ nPc = "args"
  /\ ParamsRejected(nArgs)
  /\ nPc' = "exit"
  /\ UNCHANGED <<nErr, nArgs, nIter, nW, nIn, nOut>>
  /\ UNCHANGED NotNum

\* top_level_task creates one region per tile; nothing is written yet
NumLaunch ==
  /\ nPc = "args"
  /\ ~ParamsRejected(nArgs)
  /\ nIn' = [t \in NumTiles |-> [p \in Points(NumReg(t).haloBox) |-> Garbage]]
  /\ nOut' = [t \in NumTiles |-> [p \in Points(NumReg(t).haloBox) |-> Garbage]]
  /\ nPc' = "spmd"
  /\ UNCHANGED <<nErr, nArgs, nIter, nW>>
  /\ UNCHANGED NotNum

\* spmd_task: an assert of createBalancedPartition fails in some shard
NumAbort ==
  /\ nPc = "spmd"
  /\ \E t \in NumTiles : ~NumGeo(t).ok
  /\ nPc' = "abort"
  /\ UNCHANGED <<nErr, nArgs, nIter, nW, nIn, nOut>>
  /\ UNCHANGED NotNum

\* init_field_task on every band of privateLp
NumInitFields ==
  /\ nPc = "spmd"
  /\ \A t \in NumTiles : NumGeo(t).ok
  /\ nIn' = [t \in NumTiles |-> [p \in DOMAIN nIn[t] |->
               IF InBands(NumReg(t).privateLp, p)
               THEN COEFY * p[2] + COEFX * p[1] ELSE nIn[t][p]]]
  /\ nOut' = [t \in NumTiles |-> [p \in DOMAIN nOut[t] |->
                IF InBands(NumReg(t).privateLp, p) THEN 0 ELSE nOut[t][p]]]
  /\ nPc' = "weights"
  /\ UNCHANGED <<nErr, nArgs, nIter, nW>>
  /\ UNCHANGED NotNum

\* every shard creates its weight region and runs init_weight_task on it
NumInitWeights ==
  /\ nPc = "weights"
  /\ \E fresh \in [NumTiles -> Residues] :
       nW' = [t \in NumTiles |->
                init_weight_task(
                  [p \in (-nArgs.R .. nArgs.R) \X (-nArgs.R .. nArgs.R) |->
                     fresh[t]], nArgs.R)]
  /\ nPc' = "interior"
  /\ UNCHANGED <<nErr, nArgs, nIter, nIn, nOut>>
  /\ UNCHANGED NotNum

\* interior_task on every band of interiorLp
NumInterior ==
  /\ nPc = "interior"
  /\ nOut' = [t \in NumTiles |->
                RunStencil(nW[t], nArgs, nOut[t], nIn[t], NumReg(t).haloBox,
                           NumReg(t).interiorLp)]
  /\ nPc' = "exchange"
  /\ UNCHANGED <<nErr, nArgs, nIter, nW, nIn>>
  /\ UNCHANGED NotNum

\* the cell of neighborLrs[dir] that the copies bring to ghost cell p
CopySource(t, dir, p) ==
  LET src == NumGeo(t).neighborLrs[dir]
  IN  IF src = NoRegion THEN Garbage
      ELSE IF p \in DOMAIN nIn[src] THEN nIn[src][p] ELSE Garbage

\* the two copies of every direction a shard believes it has a neighbour in
NumExchange ==
  /\ nPc = "exchange"
  /\ nIn' = [t \in NumTiles |-> [p \in DOMAIN nIn[t] |->
               LET dirs == {d \in GhostDirs :
                              /\ NumGeo(t).hasNeighbor[d]
                              /\ p \in Points(NumReg(t).localLP[d])}
               IN  IF dirs = {} THEN nIn[t][p]
                   ELSE CopySource(t, CHOOSE d \in dirs : TRUE, p)]]
  /\ nPc' = "boundary"
  /\ UNCHANGED <<nErr, nArgs, nIter, nW, nOut>>
  /\ UNCHANGED NotNum

\* boundary_task on every sector that exists
NumBoundary ==
  /\ nPc = "boundary"
  /\ nOut' = [t \in NumTiles |->
                RunStencil(nW[t], nArgs, nOut[t], nIn[t], NumReg(t).haloBox,
                           SectorRects(nArgs, NumReg(t)))]
  /\ nPc' = "inc"
  /\ UNCHANGED <<nErr, nArgs, nIter, nW, nIn>>
  /\ UNCHANGED NotNum

\* inc_field_task on every band of privateLp; the loop goes round or ends
NumInc ==
  /\ nPc = "inc"
  /\ nIn' = [t \in NumTiles |-> [p \in DOMAIN nIn[t] |->
               IF InBands(NumReg(t).privateLp, p)
               THEN VAdd(nIn[t][p], 1) ELSE nIn[t][p]]]
  /\ nIter' = nIter + 1
  /\ nPc' = IF nIter + 1 < nArgs.iterations THEN "interior" ELSE "check"
  /\ UNCHANGED <<nErr, nArgs, nW, nOut>>
  /\ UNCHANGED NotNum

\* norm of check_task, in the units of FID_OUT
Norm == nArgs.iterations * (COEFX + COEFY) * Scale(nArgs.R)

\* the cells check_task adds to abserr
Checked(t) ==
  {p \in DOMAIN nOut[t] :
     /\ InBands(NumReg(t).privateLp, p)
     /\ ~(p[1] < nArgs.R \/ p[2] < nArgs.R)
     /\ ~(p[1] >= nArgs.n - nArgs.R \/ p[2] >= nArgs.n - nArgs.R)}

\* ABS of the header
Abs(v) == IF v < 0 THEN -v ELSE v

\* the loop "abserr += ..." over the members of a set
RECURSIVE SumOver(_, _)
SumOver(S, f) ==
  IF S = {} THEN 0
  ELSE LET x == CHOOSE y \in S : TRUE
       IN  f[x] + SumOver(S \ {x}, f)

\* check_task on every band of privateLp and the sum of its results in
\* spmd_task: a cell never written holds any value, so that a tile with
\* such cells adds nothing or something to the cells that were written
NumCheck ==
  /\ nPc = "check"
  /\ \E junk \in [NumTiles -> {0, 1}] :
       nErr' = [t \in NumTiles |->
                  LET written == {p \in Checked(t) : nOut[t][p] # Garbage}
                  IN  SumOver(written,
                              [p \in written |-> Abs(nOut[t][p] - Norm)])
                      + (IF written = Checked(t) THEN 0 ELSE junk[t])]
  /\ nPc' = "reduce"
  /\ UNCHANGED <<nArgs, nIter, nW, nIn, nOut>>
  /\ UNCHANGED NotNum

\* 1 / EPSILON
InvEpsilon == 100000000

BelowEpsilonAlways(abserr) == TRUE

\* "abserr < epsilon", for abserr in units of 1 / (2 * R * Lcm(R))
BelowEpsilon(abserr) == abserr <= (Scale(nArgs.R) - 1) \div InvEpsilon

\* top_level_task adds up the results of the shards and compares with
\* EPSILON: "Solution validates", or the error message and exit(EXIT_FAILURE)
NumReduce ==
  /\ nPc = "reduce"
  /\ nPc' = IF BelowEpsilon(SumOver(NumTiles, nErr)) THEN "valid" ELSE "invalid"
  /\ UNCHANGED <<nErr, nArgs, nIter, nW, nIn, nOut>>
  /\ UNCHANGED NotNum

\* top_level_task prints the rate line
NumRate ==
  /\ nPc = "valid"
  /\ nPc' = "rate"
  /\ UNCHANGED <<nErr, nArgs, nIter, nW, nIn, nOut>>
  /\ UNCHANGED NotNum

NumNext ==
  \/ NumReject
  \/ NumLaunch
  \/ NumAbort
  \/ NumInitFields
  \/ NumInitWeights
  \/ NumInterior
  \/ NumExchange
  \/ NumBoundary
  \/ NumInc
  \/ NumCheck
  \/ NumReduce
  \/ NumRate

SpecNum == NumInit /\ [][NumNext]_vars

(***************************************************************************)
(* C8.  Convergence: once the K iterations are over, every cell of a       *)
(* tile's own block that is at distance >= R from all four global edges    *)
(* holds exactly K * (COEFX + COEFY) in FID_OUT, whatever the tile grid    *)
(* and the number of threads.                                              *)
(***************************************************************************)
Inner(t) ==
  {p \in Points(NumReg(t).localLP[PRIVATE]) :
     /\ p[1] >= nArgs.R /\ p[1] < nArgs.n - nArgs.R
     /\ p[2] >= nArgs.R /\ p[2] < nArgs.n - nArgs.R}

C8_Convergence ==
  nPc \in {"check", "reduce", "valid", "invalid", "rate"} =>
    \A t \in NumTiles : \A p \in Inner(t) : nOut[t][p] = Norm


(***************************************************************************)
(* Further claims about the partitioner, checked under SpecPart.           *)
(***************************************************************************)
\* createBalancedPartition was called with more workers than the region
\* has rows, on a region of at least one row
TooManyWorkers(rect) ==
  /\ Height(rect) >= 1
  /\ pArgs.threads > Height(rect)

\* C18: the balanced split fails an assertion whenever the number of workers
\* exceeds the number of rows of the region being split, for every number
\* of rows >= 1: the split of the tile's own block does, and so does the
\* split of the interior when it is reached.
C18_TooManyWorkersAbort ==
  /\ (/\ pPc \in {"private", "abort_private", "done", "abort_interior"}
      /\ TooManyWorkers(pLocalLP[PRIVATE]))
       => pPc = "abort_private"
  /\ (/\ pPc \in {"done", "abort_interior"}
      /\ TooManyWorkers(pBoundaryLP[INTERIOR]))
       => pPc = "abort_interior"

\* a block of two rows or more was split among more workers than rows
C18_Witness ==
  /\ pPc = "abort_private"
  /\ Height(pLocalLP[PRIVATE]) >= 2
  /\ TooManyWorkers(pLocalLP[PRIVATE])

\* the interior was split among more workers than it has rows
C18_WitnessInterior ==
  /\ pPc = "abort_interior"
  /\ TooManyWorkers(pBoundaryLP[INTERIOR])


\* a shard of tile pTile is running or has run its set-up
ShardEntered ==
  pPc \in {"spmd", "halo", "boundary", "private", "done",
           "abort_private", "abort_interior"}

\* the tile of the shard, as the launch numbers it
ThisTile == TileOf(pGrid[1], pTile[1], pTile[2])

\* C23 (neighbor-flag consistency): for every accepted configuration, every
\* tile and every direction d, hasNeighbor[d] as the shard computes it from
\* its halo box equals the test of the launch (the tile next in direction
\* d lies inside the grid), so that neighborLrs[d] is the region of that
\* tile where there is one and no region where there is none.
C23_NeighborFlagConsistency ==
  ShardEntered =>
    \A d \in GhostDirs :
      LET atLaunch == launchHasNeighbor(pGrid[1], pGrid[2], ThisTile, d)
          inShard  == shardHasNeighbor(pHaloBox, pArgs.n)
      IN  /\ inShard[d] = atLaunch
          /\ neighborLrs(launchRegions(pGrid[1], pGrid[2], ThisTile), inShard)[d]
               = IF atLaunch THEN neighborPoint(pGrid[1], ThisTile, d)
                 ELSE NoRegion


\* the shard has built localLP
HaloBuilt ==
  pPc \in {"halo", "boundary", "private", "done",
           "abort_private", "abort_interior"}

\* the block of tile (tileX, tileY) in the grid of tiles
TileBlock(tileX, tileY) ==
  LET w == pArgs.n \div pGrid[1]
      h == pArgs.n \div pGrid[2]
  IN  Rect(tileX * w, tileY * h, (tileX + 1) * w - 1, (tileY + 1) * h - 1)

\* the private box the shard of tile (tileX, tileY) derives
PrivateOf(tileX, tileY) ==
  createHaloPartition(
    tileDomain(pArgs.n, pGrid[1], pGrid[2], pArgs.R, tileX, tileY),
    pArgs.n, pArgs.R)[PRIVATE]

GridTiles == (0 .. pGrid[1] - 1) \X (0 .. pGrid[2] - 1)

\* C24 (private regions partition the grid): for every accepted
\* configuration the private box a shard derives from its halo box is the
\* block of its tile, and the private boxes of the tiles are pairwise
\* disjoint and cover the n x n grid.
C24_PrivatePartition ==
  HaloBuilt =>
    /\ pLocalLP[PRIVATE] = TileBlock(pTile[1], pTile[2])
    /\ \A t1, t2 \in GridTiles :
         t1 # t2 => Points(PrivateOf(t1[1], t1[2]))
                      \cap Points(PrivateOf(t2[1], t2[2])) = {}
    /\ UNION {Points(PrivateOf(t[1], t[2])) : t \in GridTiles}
         = (0 .. pArgs.n - 1) \X (0 .. pArgs.n - 1)


\* C25 (ghost strips): for every accepted configuration and every tile,
\* the four ghost strips and the private box of localLP are pairwise
\* disjoint, the ghost strip of direction d is non-empty iff the tile has a
\* neighbor in direction d, and it lies inside the private box of that
\* neighbor.
C25_GhostStrips ==
  HaloBuilt =>
    /\ \A c1, c2 \in GHOST_LEFT .. PRIVATE :
         c1 # c2 => Points(pLocalLP[c1]) \cap Points(pLocalLP[c2]) = {}
    /\ \A d \in GhostDirs :
         LET there == launchHasNeighbor(pGrid[1], pGrid[2], ThisTile, d)
         IN  /\ (Points(pLocalLP[d]) # {}) <=> there
             /\ there =>
                  Points(pLocalLP[d]) \subseteq
                    Points(PrivateOf(pTile[1] + offsets(d)[1],
                                     pTile[2] + offsets(d)[2]))


\* createBalancedPartition was called with at least one worker and at most
\* as many workers as the region has rows
WorkersFit(rect) ==
  /\ Height(rect) >= 1
  /\ pArgs.threads >= 1
  /\ pArgs.threads <= Height(rect)

\* C26 (assertion validity of the balanced split): for every region of
\* size >= 1 rows and every numThreads with 1 <= numThreads <= size,
\* neither assertion of createBalancedPartition fails: not in the split of
\* the tile's own block, not in the split of the interior.
C26_AssertionsHold ==
  /\ (/\ pPc \in {"private", "abort_private", "done", "abort_interior"}
      /\ WorkersFit(pLocalLP[PRIVATE]))
       => pPc # "abort_private"
  /\ (/\ pPc \in {"done", "abort_interior"}
      /\ WorkersFit(pBoundaryLP[INTERIOR]))
       => pPc # "abort_interior"


\* the computes of one iteration of the shard: one interior_task per band
\* of interiorLp, one boundary_task per sector that exists
ComputeRects ==
  {<<"interior", k>> : k \in DOMAIN pInteriorLp}
    \cup {<<"boundary", c>> : c \in {d \in Boundaries : pHasBoundary[d]}}

RectOf(c) == IF c[1] = "interior" THEN pInteriorLp[c[2]] ELSE pBoundaryLP[c[2]]

\* the computes that accumulate into FID_OUT of cell p
ComputesOf(p) ==
  {c \in ComputeRects : p \in ComputeCells(RectOf(c), pArgs.n, pArgs.R)}

\* at distance >= R from all four global edges
FarFromEdges(p) ==
  /\ p[1] >= pArgs.R /\ p[1] <= pArgs.n - 1 - pArgs.R
  /\ p[2] >= pArgs.R /\ p[2] <= pArgs.n - 1 - pArgs.R

\* the cells the stencil reads for cell p
StencilReads(p) ==
  {<<p[1] + ii, p[2]>> : ii \in -pArgs.R .. pArgs.R}
    \cup {<<p[1], p[2] + jj>> : jj \in -pArgs.R .. pArgs.R}

\* C27 (update coverage): in a shard whose set-up is done, every private
\* cell at distance >= R from all global edges is accumulated by exactly
\* one compute of an iteration (one band of the interior or one boundary
\* sector), no cell closer than R to a global edge is accumulated by any,
\* and every cell the stencil reads lies in the private box or in one of
\* the four ghost strips.
C27_UpdateCoverage ==
  pPc = "done" =>
    \A p \in Points(pLocalLP[PRIVATE]) :
      /\ Cardinality(ComputesOf(p)) = IF FarFromEdges(p) THEN 1 ELSE 0
      /\ ComputesOf(p) # {} =>
           StencilReads(p) \subseteq
             UNION {Points(pLocalLP[c]) : c \in GHOST_LEFT .. PRIVATE}


\* the block of the shard's tile
ThisBlock == TileBlock(pTile[1], pTile[2])

\* C28 (tile bounding box) as stated: the halo box is the block of the
\* tile extended by exactly R on each side that has a neighbor tile and by
\* 0 on each side that touches the global boundary.
C28_AsWritten ==
  ShardEntered =>
    /\ pHaloBox.lo[1] = ThisBlock.lo[1] - (IF pTile[1] > 0 THEN pArgs.R ELSE 0)
    /\ pHaloBox.lo[2] = ThisBlock.lo[2] - (IF pTile[2] > 0 THEN pArgs.R ELSE 0)
    /\ pHaloBox.hi[1] = ThisBlock.hi[1]
                          + (IF pTile[1] < pGrid[1] - 1 THEN pArgs.R ELSE 0)
    /\ pHaloBox.hi[2] = ThisBlock.hi[2]
                          + (IF pTile[2] < pGrid[2] - 1 THEN pArgs.R ELSE 0)

\* C28: the halo box of a tile is the block of the tile extended by R on
\* every side and cut off at the global boundary: its cells are the cells of
\* the n x n grid within R columns and R rows of the block, and it is not
\* extended on a side where the block touches the global boundary.
C28_TileBoundingBox ==
  ShardEntered =>
    /\ pHaloBox.lo[1] <= pHaloBox.hi[1]
    /\ pHaloBox.lo[2] <= pHaloBox.hi[2]
    /\ Points(pHaloBox) =
         {q \in (0 .. pArgs.n - 1) \X (0 .. pArgs.n - 1) :
            /\ q[1] >= ThisBlock.lo[1] - pArgs.R
            /\ q[1] <= ThisBlock.hi[1] + pArgs.R
            /\ q[2] >= ThisBlock.lo[2] - pArgs.R
            /\ q[2] <= ThisBlock.hi[2] + pArgs.R}
    /\ pTile[1] = 0 => pHaloBox.lo[1] = ThisBlock.lo[1]
    /\ pTile[2] = 0 => pHaloBox.lo[2] = ThisBlock.lo[2]
    /\ pTile[1] = pGrid[1] - 1 => pHaloBox.hi[1] = ThisBlock.hi[1]
    /\ pTile[2] = pGrid[2] - 1 => pHaloBox.hi[2] = ThisBlock.hi[2]

\* a tile with a tile above it whose halo box is cut off at the upper
\* global boundary, less than R rows above its block
C28_Witness ==
  /\ ShardEntered
  /\ pTile[2] > 0
  /\ pHaloBox.lo[2] = 0
  /\ ThisBlock.lo[2] - pArgs.R < 0


(***************************************************************************)
(* Further claims about the fields, checked under SpecNum.                 *)
(***************************************************************************)
\* the sum over all tiles of the per-tile error accumulators
TotalError == SumOver(NumTiles, nErr)

\* TotalError / Scale < 1 / InvEpsilon, without the product
TotalBelowEpsilon ==
  IF TotalError = 0 THEN TRUE
  ELSE InvEpsilon <= (Scale(nArgs.R) - 1) \div TotalError

\* C17: the run prints "Solution validates" and then the rate line iff the
\* sum over all tiles of the per-tile error accumulators is below epsilon;
\* otherwise it exits with a failure status, after which nothing happens,
\* and the rate line is printed only after "Solution validates".
C17_ValidationOutcome ==
  /\ [](nPc \in {"valid", "rate"} => TotalBelowEpsilon)
  /\ [](nPc = "invalid" => ~TotalBelowEpsilon)
  /\ [][/\ nPc = "reduce" =>
            nPc' = IF TotalBelowEpsilon THEN "valid" ELSE "invalid"
        /\ nPc' = "rate" => nPc = "valid"
        /\ nPc # "invalid"]_vars

\* the rate line is printed after the results of several tiles were added
C17_Witness ==
  /\ nPc = "rate"
  /\ Cardinality(NumTiles) > 1
  /\ nIter > 1

\* a run fails validation although some tile reports no error
C17_WitnessFailure ==
  /\ nPc = "invalid"
  /\ \E t \in NumTiles : nErr[t] = 0
  /\ \E t \in NumTiles : nErr[t] > 0


(***************************************************************************)
(* Further claims about the placement policy, checked under SpecMap.       *)
(***************************************************************************)
AllReqs == DOMAIN mRanking

\* C11 as stated: when map_must_epoch returns, every region requirement of
\* every task targets the system memory of the processor that task itself
\* is bound to.
C11_AsWritten ==
  mPc = "done" =>
    \A req \in AllReqs :
      mRanking[req] = <<all_sysmems(mMachine, mTargetProc[req[1] + 1])>>

\* C11: when map_must_epoch returns, every region requirement of every task
\* targets exactly the system memory of the processor of the shard that has
\* the requirement's region at slot 0: the task's own memory for its own
\* region, the owner's memory for a neighbor's region.
C11_MemoryLocality ==
  mPc = "done" =>
    \A req \in AllReqs :
      mRanking[req] = <<OwnerMemory(ReqRegion(mGrid[1], mGrid[2], req))>>

\* a task on one node holds a requirement on the region of a shard of
\* another node, and that requirement targets the other node's memory
C11_Witness ==
  /\ mPc = "done"
  /\ \E req \in AllReqs :
       LET owner == ReqRegion(mGrid[1], mGrid[2], req)
       IN  /\ req[2] # 0
           /\ mTargetProc[req[1] + 1] \in AllProcs(mMachine)
           /\ mTargetProc[owner + 1] \in AllProcs(mMachine)
           /\ mTargetProc[req[1] + 1].node # mTargetProc[owner + 1].node
           /\ mRanking[req] = <<mTargetProc[owner + 1].node>>


\* C12: the placement is a function of the topology, the shard list and the
\* constraint list: in no state of map_must_epoch can the next step end in
\* two different ways, so two runs on the same inputs assign the same
\* processor to every shard and the same memory to every requirement.
C12_PlacementDeterminism ==
  /\ \A p, q \in AllProcs(mMachine) \cup {NO_PROC} :
       (/\ ENABLED (MapNext /\ mTargetProc' = Append(mTargetProc, p))
        /\ ENABLED (MapNext /\ mTargetProc' = Append(mTargetProc, q)))
         => p = q
  /\ \A req \in AllReqs :
       \A m1, m2 \in (0 .. mMachine.nodes - 1) \cup {NO_MEMORY} :
         (/\ ENABLED (MapNext /\ mRanking'[req] = <<m1>>)
          /\ ENABLED (MapNext /\ mRanking'[req] = <<m2>>))
           => m1 = m2
  /\ \A pc1, pc2 \in {"assign", "pass1", "pass2", "done", "abort", "crash"} :
       (/\ ENABLED (MapNext /\ mPc' = pc1)
        /\ ENABLED (MapNext /\ mPc' = pc2))
         => pc1 = pc2


(***************************************************************************)
(* Claims about the checks of the inputs, under SpecPart.                  *)
(***************************************************************************)
\* d divides n
Divides(d, n) == \E k \in 0 .. n : k * d = n

\* the configuration errors that C13 lists
ListedError(a) ==
  \/ a.argc < 4
  \/ a.threads <= 0
  \/ a.iterations < 1
  \/ a.n <= 0
  \/ ~Divides(Num_procsx(a.ranks), a.n)
  \/ ~Divides(Num_procsy(a.ranks), a.n)
  \/ a.R < 1
  \/ 2 * a.R + 1 > a.n

Exchanged(s) ==
  IF shGeo[s] = <<>> THEN {}
  ELSE {d \in GhostDirs : shGeo[s].hasNeighbor[d]}

ExchangeDone(s, k, d) == Done(s, "copy1", k, d) /\ Done(s, "copy2", k, d)

\* the ghost strips a boundary sector adjoins
Adjoins(b) ==
  CASE b = LEFT -> {GHOST_LEFT}
    [] b = LEFT_UP -> {GHOST_LEFT, GHOST_UP}
    [] b = UP -> {GHOST_UP}
    [] b = UP_RIGHT -> {GHOST_UP, GHOST_RIGHT}
    [] b = RIGHT -> {GHOST_RIGHT}
    [] b = RIGHT_DOWN -> {GHOST_RIGHT, GHOST_DOWN}
    [] b = DOWN -> {GHOST_DOWN}
    [] OTHER -> {GHOST_DOWN, GHOST_LEFT}

PastDrain(s) == shPc[s] \in {"check_wait", "done"}

LoopKinds == {"interior", "copy1", "copy2", "boundary", "inc"}

\* C16 (drain): each shard issues exactly one dummy launch, after the
\* launches of its last iteration, and it is past the waits that precede
\* the sampling of tsEnd and the check only when the dummy launch and the
\* increment of the last iteration have finished, and with them every
\* interior, boundary, copy and increment launch of all its iterations.
C16_Drain ==
  \A s \in Shards :
    /\ \A i, j \in 1 .. Len(ops[s]) :
         /\ ops[s][i].kind = "dummy" /\ ops[s][j].kind = "dummy" => i = j
         /\ ops[s][i].kind = "dummy" /\ ops[s][j].kind \in LoopKinds => j < i
    /\ PastDrain(s) =>
         /\ \E i \in 1 .. Len(ops[s]) : ops[s][i].kind = "dummy"
         /\ Done(s, "inc", xArgs.iterations - 1, 0)
         /\ \A i \in 1 .. Len(ops[s]) :
              ops[s][i].kind \in LoopKinds \cup {"dummy"} => ops[s][i].st = "done"

\* a shard with a neighbor is past the drain of a run of two iterations
\* while its neighbor is not
C16_Witness ==
  \E l \in Links :
    /\ xArgs.iterations = 2
    /\ PastDrain(l[1])
    /\ ~PastDrain(Neighbor(l))
    /\ Done(l[1], "copy2", 1, l[2])


\* every shard has issued the launches and copies of all its iterations
AllIssued == \A s \in Shards : shPc[s] \in {"dummy_wait", "check_wait", "done"}

\* the shards that issued an operation arriving at, or waiting on, barrier b
Arrivers(b) ==
  {s \in Shards : \E i \in 1 .. Len(ops[s]) :
                    \E h \in ops[s][i].arrives : h.bar = b}

Waiters(b) ==
  {s \in Shards : \E i \in 1 .. Len(ops[s]) :
                    \E h \in ops[s][i].waits : h.bar = b}

LinkBarriers == DOMAIN bar \ {LockBar}

\* C19 (barrier wiring): once the inputs are accepted, the shards are
\* launched with handles such that, for every tile A with a neighbor B in
\* direction d, A.fullInput[d] is the barrier B.fullOutput[flip(d)] and
\* A.emptyInput[d] is the barrier B.emptyOutput[flip(d)]; the barriers
\* created are exactly those of the (tile, direction) pairs that have a
\* neighbor; and once the shards have issued everything, every such barrier
\* has exactly one arriving shard and exactly one waiting shard.
C19_BarrierWiring ==
  xPc \notin {"args", "exit"} =>
    /\ xPc \in {"run", "joined", "abort"}
    /\ \A l \in Links :
         /\ shBar[l[1]].fullInput[l[2]].bar
              = shBar[Neighbor(l)].fullOutput[flip(l[2])].bar
         /\ shBar[l[1]].emptyInput[l[2]].bar
              = shBar[Neighbor(l)].emptyOutput[flip(l[2])].bar
    /\ LinkBarriers = {FullBar(l[1], l[2]) : l \in Links}
                        \cup {EmptyBar(l[1], l[2]) : l \in Links}
    /\ AllIssued =>
         \A b \in LinkBarriers :
           /\ Cardinality(Arrivers(b)) = 1
           /\ Cardinality(Waiters(b)) = 1

\* the same, for the runs in which the indexing of the empty vectors does
\* not end the process
C19_WiringWhenLaunched ==
  xPc \in {"run", "joined", "abort"} =>
    /\ \A l \in Links :
         /\ shBar[l[1]].fullInput[l[2]].bar
              = shBar[Neighbor(l)].fullOutput[flip(l[2])].bar
         /\ shBar[l[1]].emptyInput[l[2]].bar
              = shBar[Neighbor(l)].emptyOutput[flip(l[2])].bar
    /\ LinkBarriers = {FullBar(l[1], l[2]) : l \in Links}
                        \cup {EmptyBar(l[1], l[2]) : l \in Links}
    /\ AllIssued =>
         \A b \in LinkBarriers :
           /\ Cardinality(Arrivers(b)) = 1
           /\ Cardinality(Waiters(b)) = 1


\* the launches that compute FID_OUT from FID_IN
Computes == {"interior", "boundary"}

\* C20: within a shard, the interior launch and every boundary launch of
\* iteration k run when the increment of iteration k - 1 (the init launch
\* for k = 0) has finished and the increment of iteration k has not begun,
\* so that the private input they read has seen exactly k increments and
\* is not being written; the interior launch of iteration k is ordered
\* after no copy of iteration k and waits on no barrier of a link; it waits
\* on the startup barrier exactly when k = 0.
C20_ComputeReadsIterationK ==
  /\ [][\A s \in Shards : \A i \in 1 .. Len(ops[s]) :
          (/\ ops[s][i].kind \in Computes
           /\ ops[s][i].st = "pending"
           /\ ops'[s][i].st = "done")
            => /\ inVer[s] = ops[s][i].iter
               /\ writing[s] = 0
               /\ ~Begun(s, "inc", ops[s][i].iter, 0)]_vars
  /\ [](\A s \in Shards : \A i \in 1 .. Len(ops[s]) :
          ops[s][i].kind = "interior" =>
            /\ \A j \in ops[s][i].deps :
                 ~(/\ ops[s][j].kind \in {"copy1", "copy2"}
                   /\ ops[s][j].iter = ops[s][i].iter)
            /\ \A h \in ops[s][i].waits : h.bar = LockBar
            /\ (ops[s][i].waits # {}) <=> (ops[s][i].iter = 0))

\* the interior launch of the second iteration has run, on an input
\* incremented once, while a ghost exchange of that iteration has not begun
C20_Witness ==
  \E l \in Links :
    /\ OpsOf(l[1], "copy1", 1, l[2]) # {}
    /\ Done(l[1], "interior", 1, 0)
    /\ inVer[l[1]] = 1
    /\ ~Begun(l[1], "copy1", 1, l[2])


\* the waits issued on barrier b for phase ph (through a handle of ph + 1)
WaitsFor(b, ph) ==
  UNION {{<<s, i>> : i \in {j \in 1 .. Len(ops[s]) :
                              [bar |-> b, phase |-> ph + 1] \in ops[s][j].waits}} :
           s \in Shards}

\* the arrivals a barrier is to have counted on phase ph when the run is
\* over: a full barrier on the phases 0 .. K (the init launch and the K
\* increments), an empty barrier on 0 .. K - 1 (the K copies), the startup
\* barrier Px * Py on its phase 0
ArrivalsDue(b, ph) ==
  IF b = LockBar THEN (IF ph = 0 THEN xGrid[1] * xGrid[2] ELSE 0)
  ELSE IF b[1] = "full" THEN 1
  ELSE IF ph < xArgs.iterations THEN 1 ELSE 0

\* C21 (arrival counting): no phase of a barrier ever counts more arrivals
\* than it is due, and when the run is over every phase has counted exactly
\* what it is due; at most one wait is issued for each phase of a link
\* barrier; and once the shards have issued everything, every handle of a
\* link was advanced once per iteration (the producer's fullOutput once
\* more, by the init launch), the copy of iteration k waiting for phase k
\* of the neighbor's full barrier and arriving on phase k of its own empty
\* barrier, the increment of iteration k waiting for phase k of the
\* neighbor's empty barrier and arriving on phase k + 1 of its own full one.
C21_ArrivalCounting ==
  xPc \in {"run", "joined"} =>
    /\ \A b \in DOMAIN bar : \A ph \in DOMAIN bar[b] :
         /\ bar[b][ph] <= ArrivalsDue(b, ph)
         /\ xPc = "joined" => bar[b][ph] = ArrivalsDue(b, ph)
    /\ \A b \in LinkBarriers : \A ph \in DOMAIN bar[b] :
         Cardinality(WaitsFor(b, ph)) <= 1
    /\ AllIssued =>
         \A l \in Links :
           LET A == l[1]
               d == l[2]
               B == Neighbor(l)
               K == xArgs.iterations
           IN  /\ shBar[A].fullInput[d] = [bar |-> FullBar(B, flip(d)), phase |-> K]
               /\ shBar[A].emptyOutput[d] = [bar |-> EmptyBar(A, d), phase |-> K]
               /\ shBar[A].emptyInput[d] = [bar |-> EmptyBar(B, flip(d)), phase |-> K]
               /\ shBar[A].fullOutput[d] = [bar |-> FullBar(A, d), phase |-> K + 1]
               /\ \A k \in Iterations :
                    /\ \E i \in OpsOf(A, "copy1", k, d) :
                         /\ [bar |-> FullBar(B, flip(d)), phase |-> k + 1]
                              \in ops[A][i].waits
                         /\ ops[A][i].arrives
                              = {[bar |-> EmptyBar(A, d), phase |-> k]}
                    /\ \E i \in OpsOf(A, "inc", k, 0) :
                         /\ [bar |-> EmptyBar(B, flip(d)), phase |-> k + 1]
                              \in ops[A][i].waits
                         /\ [bar |-> FullBar(A, d), phase |-> k + 1]
                              \in ops[A][i].arrives

\* a run of two iterations on three tiles is over
C21_Witness ==
  /\ xPc = "joined"
  /\ xArgs.iterations = 2
  /\ xGrid[1] * xGrid[2] = 3
  /\ \E l \in Links : bar[FullBar(l[1], l[2])][2] = 1


\* C22 (deadlock freedom): under fair scheduling, once the shards are
\* launched every shard completes its iterations, the drain round and the
\* validation, and top_level_task collects their results.
C22_Completion == (xPc = "run") ~> (xPc = "joined")

\* shard s is not waiting, or what it waits for has finished
ShardCanGoOn(s) ==
  \/ shPc[s] = "setup"
  \/ shPc[s] = "init_wait" /\ Finished(ops[s], "init")
  \/ shPc[s] = "weight_wait" /\ Finished(ops[s], "weight")
  \/ shPc[s] = "dummy_wait" /\ Finished(ops[s], "dummy") /\ Finished(ops[s], "inc")
  \/ shPc[s] = "check_wait" /\ Finished(ops[s], "check")

\* an operation of shard s is running, or is ready to
OpCanGoOn(s) ==
  \E i \in 1 .. Len(ops[s]) : ops[s][i].st = "running" \/ Ready(s, i)

\* while the shards run, some shard or some operation can always go on, or
\* all shards have returned: no state has every unfinished operation
\* blocked on a barrier wait.  With it, a fair run that no assertion ends
\* is joined.
C22_NeverBlocked ==
  xPc = "run" =>
    \/ \A s \in Shards : shPc[s] = "done"
    \/ \E s \in Shards : ShardCanGoOn(s) \/ OpCanGoOn(s)


\* the ghost strips the boundary launch of sector b names as an input
GhostsNamed(b) ==
  {g \in GhostDirs :
     Req(localTree, ghostLrs(g), "FID_IN", FALSE) \in ReqsOf("boundary", b)}

\* what the shard at tile t of a Px x Py grid of tiles of 3 x 3 cells
\* issues in its loop
LoopOf(Px, Py, t) ==
  LET a   == [n |-> 3 * Py, R |-> 1, threads |-> 1]
      geo == shardSetup(a, Px, Py, t)
  IN  IssueLoop(IssueInitLaunch([ops |-> <<>>, args |-> spmdArgs(Px, Py, t)],
                                geo.hasNeighbor),
                0, ProtoMaxIter, geo).ops

\* the directions whose copy into the ghost strip, of the iteration of the
\* i-th operation of issued, that operation is ordered after
RefreshedFor(issued, i) ==
  {d \in GhostDirs :
     \E j \in issued[i].deps : /\ issued[j].kind = "copy2"
                               /\ issued[j].iter = issued[i].iter
                               /\ issued[j].dir = d}

\* the sectors the shard in the middle of 3 x 3 tiles launches a boundary
\* compute for
MiddleSectors ==
  LET issued == LoopOf(3, 3, 4)
  IN  {issued[i].dir : i \in {j \in 1 .. Len(issued) : issued[j].kind = "boundary"}}

\* every boundary launch names exactly the ghost strips its sector adjoins
NamesAdjoining == \A b \in Boundaries : GhostsNamed(b) = Adjoins(b)

\* on the tile in the middle of 3 x 3 tiles and on the four tiles of 2 x 2,
\* every boundary launch is ordered after the copies of its iteration into
\* exactly the ghost strips its sector adjoins
OrderedAfterAdjoining ==
  \A g \in {<<3, 3, 4>>, <<2, 2, 0>>, <<2, 2, 1>>, <<2, 2, 2>>, <<2, 2, 3>>} :
    LET issued == LoopOf(g[1], g[2], g[3])
    IN  \A i \in 1 .. Len(issued) :
          issued[i].kind = "boundary" =>
            RefreshedFor(issued, i) = Adjoins(issued[i].dir)

\* C29 (boundary-sector dependencies): the boundary launch of a sector names
\* as inputs exactly the ghost strips the sector adjoins (its own for LEFT,
\* UP, RIGHT, DOWN; LEFT and UP for LEFT_UP, UP and RIGHT for UP_RIGHT, RIGHT
\* and DOWN for RIGHT_DOWN, DOWN and LEFT for DOWN_LEFT); it is ordered after
\* the copies of its iteration into exactly those strips; and when it runs,
\* each of those strips holds the neighbor's cells as of that iteration.
C29_BoundaryDependencies ==
  /\ [](/\ NamesAdjoining
        /\ OrderedAfterAdjoining
        /\ MiddleSectors = Boundaries)
  /\ [][\A s \in Shards : \A i \in 1 .. Len(ops[s]) :
          (/\ ops[s][i].kind = "boundary"
           /\ ops[s][i].st = "pending"
           /\ ops'[s][i].st = "done")
            => /\ Adjoins(ops[s][i].dir) \subseteq Exchanged(s)
               /\ RefreshedFor(ops[s], i) = Adjoins(ops[s][i].dir)
               /\ \A d \in Adjoins(ops[s][i].dir) :
                    ghost[s][d] = Stamp(shGeo[s].neighborLrs[d],
                                        ops[s][i].iter)]_vars

\* the sector on the side of the middle tile of three has computed its
\* second iteration on a ghost strip copied from the neighbor after the
\* neighbor's first increment, while the opposite sector has not run
C29_Witness ==
  \E s \in Shards :
    /\ xGrid[1] * xGrid[2] = 3
    /\ Exchanged(s) = {GHOST_UP, GHOST_DOWN}
    /\ Done(s, "boundary", 1, UP)
    /\ ghost[s][GHOST_UP] = Stamp(shGeo[s].neighborLrs[GHOST_UP], 1)
    /\ ~Begun(s, "boundary", 1, DOWN)


(***************************************************************************)
(* Further claims about the placement policy, checked under SpecEpoch.     *)
(***************************************************************************)
Deferred(c) == c.idx1 # 0 /\ c.idx2 # 0

\* the constraints with a side at slot 0 whose region (that of the slot-0
\* side) is r
OwnerConstraints(r) ==
  {c \in ConstraintSet :
     /\ ~Deferred(c)
     /\ r = (IF c.idx1 = 0 THEN ConstraintRegion(mGrid, c.t1, c.idx1)
             ELSE ConstraintRegion(mGrid, c.t2, c.idx2))}

\* the constraint the loop of the pass is at
AtConstraint == mConstraints[mI + 1]

\* C30 (deferred constraints): the first pass over the constraints leaves a
\* constraint with neither side at slot 0 alone; this constraint is handled
\* in the second pass, which starts when the first has gone through the
\* whole list, so that every region with a slot-0 constraint has a memory
\* recorded; the second pass gives both sides of it the memory recorded for
\* the region of its t1 side and nothing else changes; when no slot-0
\* constraint has that region, nothing is recorded for it, the assertion
\* fails, no target_ranking is changed and map_must_epoch never returns.
C30_DeferredConstraints ==
  /\ [](mPc \in {"pass2", "abort", "done"} =>
          \A r \in 0 .. NTasks - 1 :
            (r \in DOMAIN mMappings) <=> (OwnerConstraints(r) # {}))
  /\ [](mPc = "abort" =>
          /\ Deferred(AtConstraint)
          /\ OwnerConstraints(
               ConstraintRegion(mGrid, AtConstraint.t1, AtConstraint.idx1)) = {})
  /\ [][(mPc = "pass1" /\ mI < Len(mConstraints) /\ Deferred(AtConstraint))
          => /\ mRanking' = mRanking
             /\ mMappings' = mMappings
             /\ mPc' = "pass1"]_vars
  /\ [][(mPc = "pass2" /\ mI < Len(mConstraints) /\ Deferred(AtConstraint))
          => LET c == AtConstraint
                 region == ConstraintRegion(mGrid, c.t1, c.idx1)
             IN  IF OwnerConstraints(region) # {}
                 THEN /\ mPc' = "pass2"
                      /\ mMappings' = mMappings
                      /\ \A req \in DOMAIN mRanking :
                           mRanking'[req] =
                             IF req \in {<<c.t1, c.idx1>>, <<c.t2, c.idx2>>}
                             THEN <<mMappings[region]>>
                             ELSE mRanking[req]
                 ELSE /\ mPc' = "abort"
                      /\ mRanking' = mRanking
                      /\ mMappings' = mMappings]_vars
  /\ [][mPc = "abort" => mPc' = "abort"]_vars

\* map_must_epoch has returned after its second pass gave the two sides of
\* a deferred constraint, which comes in the list before every slot-0
\* constraint of its region, the memory of the region's owner
C30_Witness ==
  /\ mPc = "done"
  /\ \E k \in 1 .. Len(mConstraints) :
       LET c == mConstraints[k]
           region == ConstraintRegion(mGrid, c.t1, c.idx1)
       IN  /\ Deferred(c)
           /\ \A j \in 1 .. k - 1 : mConstraints[j] \notin OwnerConstraints(region)
           /\ OwnerConstraints(region) # {}
           /\ mRanking[<<c.t1, c.idx1>>] = <<mMappings[region]>>
           /\ mRanking[<<c.t2, c.idx2>>] = <<mMappings[region]>>
           /\ mRanking[<<c.t1, c.idx1>>]
                # <<all_sysmems(mMachine, mTargetProc[c.t1 + 1])>>

\* the assertion of the second pass has failed on a deferred constraint
\* whose region no slot-0 constraint names
C30_WitnessAssert ==
  /\ mPc = "abort"
  /\ Deferred(AtConstraint)
  /\ ConstraintRegion(mGrid, AtConstraint.t1, AtConstraint.idx1)
       \notin DOMAIN mMappings
  /\ \A req \in DOMAIN mRanking : Len(mRanking[req]) = 1


(***************************************************************************)
(* The loop of top_level_task that computes the tile grid, one step per    *)
(* test of the loop.  num_ranks is an int: gasnet_nodes() times the        *)
(* <# numa nodes> of the command line, which atoi takes up to INT_MAX.     *)
(***************************************************************************)
GridMaxRanks == 60

INT_MAX == 2147483647
INT_MIN == -INT_MAX - 1

\* (int)(sqrt(num_ranks + 1)): at INT_MAX the int addition overflows; where
\* it wraps, sqrt of the negative sum is NaN, and the conversion of NaN to
\* int gives INT_MIN (x86) or 0 (ARM)
GridStart(num_ranks) ==
  IF num_ranks = INT_MAX THEN {INT_MIN, 0}
  ELSE {ISqrt(num_ranks + 1)}

GridInit ==
  /\ gPc = "entry"
  /\ gRanks \in (1 .. GridMaxRanks) \cup {INT_MAX}
  /\ gPx = 0
  /\ gPy = 0
  /\ PartIdle
  /\ MapIdle
  /\ ProtoIdle
  /\ NumIdle
  /\ CallIdle

\* Num_procsy = 0; Num_procsx = (int)(sqrt(num_ranks + 1))
GridEnter ==
  /\ gPc = "entry"
  /\ gPx' \in GridStart(gRanks)
  /\ gPy' = 0
  /\ gPc' = "loop"
  /\ UNCHANGED gRanks
  /\ UNCHANGED NotGrid

\* Num_procsx > 0 and num_ranks % Num_procsx != 0: --Num_procsx
GridStep ==
  /\ gPc = "loop"
  /\ gPx > 0
  /\ gRanks % gPx # 0
  /\ gPx' = gPx - 1
  /\ UNCHANGED <<gPc, gRanks, gPy>>
  /\ UNCHANGED NotGrid

\* num_ranks % Num_procsx == 0: Num_procsy = num_ranks / Num_procsx; break
GridFound ==
  /\ gPc = "loop"
  /\ gPx > 0
  /\ gRanks % gPx = 0
  /\ gPy' = gRanks \div gPx
  /\ gPc' = "done"
  /\ UNCHANGED <<gRanks, gPx>>
  /\ UNCHANGED NotGrid

\* Num_procsx > 0 is false: the loop ends without a break
GridExhausted ==
  /\ gPc = "loop"
  /\ gPx <= 0
  /\ gPc' = "done"
  /\ UNCHANGED <<gRanks, gPx, gPy>>
  /\ UNCHANGED NotGrid

GridNext ==
  \/ GridEnter
  \/ GridStep
  \/ GridFound
  \/ GridExhausted

SpecGrid == GridInit /\ [][GridNext]_vars

\* the loop ends under fair scheduling of its steps
SpecGridFair == GridInit /\ [][GridNext]_vars /\ WF_vars(GridNext)


(***************************************************************************)
(* Claims about the tile grid, checked under SpecGrid.                     *)
(***************************************************************************)
\* the divisors of num_ranks that do not exceed floor(sqrt(num_ranks + 1)),
\* for num_ranks < INT_MAX
SmallDivisors ==
  {d \in 1 .. ISqrt(gRanks + 1) : gRanks % d = 0}

\* C32 (tile-grid factorisation): for every num_ranks >= 1, when the loop
\* has ended Px >= 1, Px * Py = num_ranks and Px <= Py, and Px is the
\* largest divisor of num_ranks that does not exceed
\* floor(sqrt(num_ranks + 1)).
C32_GridFactorisation ==
  gPc = "done" =>
    /\ gPx >= 1
    /\ gPx * gPy = gRanks
    /\ gPx <= gPy
    /\ gRanks < INT_MAX =>
         /\ gPx \in SmallDivisors
         /\ \A d \in SmallDivisors : d <= gPx

\* the same for num_ranks below INT_MAX, where num_ranks + 1 is an int; the
\* grid is then the one Num_procsx and Num_procsy give
C32_BelowIntMax ==
  (gPc = "done" /\ gRanks < INT_MAX) =>
    /\ gPx >= 1
    /\ gPx * gPy = gRanks
    /\ gPx <= gPy
    /\ gPx \in SmallDivisors
    /\ \A d \in SmallDivisors : d <= gPx
    /\ gPx = Num_procsx(gRanks)
    /\ gPy = Num_procsy(gRanks)

\* the loop terminates
C32_Terminates == <>(gPc = "done")


(***************************************************************************)
(* The mapper's calls select_task_options and slice_domain.  The runtime   *)
(* calls select_task_options of the mapper of the processor a task is      *)
(* launched from, and slice_domain for an index launch, whose domain has   *)
(* one point per worker thread.  A processor of a node that is not a LOC   *)
(* processor (OtherProcs) is in no list of proc_map.                       *)
(***************************************************************************)
CallMaxNodes == 2
CallMaxProcs == 6
CallMaxVolume == 7

\* the names main registers the tasks under
TaskNames ==
  {"top_level", "spmd", "init_weight", "init", "stencil", "boundary", "inc",
   "check", "dummy"}

CallMachines == [nodes : 1 .. CallMaxNodes, procs : 1 .. CallMaxProcs]

OtherProcs(machine) == {Proc(node, machine.procs) : node \in 0 .. machine.nodes - 1}

\* the options of a task, as select_task_options sets them and otherwise
TaskOptions ==
  {[inline_task |-> FALSE, spawn_task |-> FALSE, map_locally |-> TRUE,
    profile_task |-> FALSE, task_priority |-> 0],
   [inline_task |-> TRUE, spawn_task |-> TRUE, map_locally |-> FALSE,
    profile_task |-> TRUE, task_priority |-> 1]}

\* what a launch of spmd_task tells a boundary task apart by
TaskTags == {[shard |-> 0, sector |-> LEFT, iter |-> 0],
             [shard |-> 1, sector |-> DOWN_LEFT, iter |-> 1]}

\* (mutant of back: the first element of the list)
front(procs) == procs[0]

\* procs.back()
back(procs) == procs[Cardinality(DOMAIN procs) - 1]

\* (mutant of sliceStride: every processor in turn)
sliceStrideOne(size, volume) == 1

\* int stride = procs.size() / domain.get_volume()
sliceStride(size, volume) == CDiv(size, volume)

\* procs of slice_domain and its size
SliceProcs == proc_map(cMachine, cTask.target_proc.node)
SliceSize == Cardinality(DOMAIN SliceProcs)

CallInit ==
  /\ cPc \in {"options", "slice"}
  /\ cMachine \in CallMachines
  /\ cLocal \in IF cPc = "options" THEN AllProcs(cMachine) \cup OtherProcs(cMachine)
                ELSE {Proc(0, 0)}
  /\ \E name \in IF cPc = "options" THEN TaskNames ELSE {"stencil"},
        target \in AllProcs(cMachine) \cup OtherProcs(cMachine),
        opt \in TaskOptions,
        tag \in IF cPc = "options" THEN TaskTags
                ELSE {[shard |-> 0, sector |-> INTERIOR, iter |-> 0]} :
       cTask = [name |-> name, target_proc |-> target, options |-> opt,
                tag |-> tag]
  /\ cVolume \in IF cPc = "slice" THEN 1 .. CallMaxVolume ELSE {0}
  /\ cIt = 0
  /\ cRemaining = 0
  /\ cI = 0
  /\ cTargets = <<>>
  /\ PartIdle
  /\ MapIdle
  /\ ProtoIdle
  /\ NumIdle
  /\ GridIdle

\* select_task_options
SelectTaskOptions ==
  /\ cPc = "options"
  /\ cTask' = [cTask EXCEPT
                 !.options = [inline_task |-> FALSE, spawn_task |-> FALSE,
                              map_locally |-> TRUE, profile_task |-> FALSE,
                              task_priority |-> 0],
                 !.target_proc = IF cTask.name = "boundary"
                                 THEN back(proc_map(cMachine, cLocal.node))
                                 ELSE @]
  /\ cPc' = "opted"
  /\ UNCHANGED <<cMachine, cLocal, cVolume, cIt, cRemaining, cI, cTargets>>
  /\ UNCHANGED NotCall

\* slice_domain up to its while loop: the stride and its assert, and the
\* search for target_proc in procs
SliceEnter ==
  /\ cPc = "slice"
  /\ IF sliceStride(SliceSize, cVolume) >= 1
     THEN /\ cIt' = IF \E k \in DOMAIN SliceProcs : SliceProcs[k] = cTask.target_proc
                    THEN CHOOSE k \in DOMAIN SliceProcs :
                           SliceProcs[k] = cTask.target_proc
                    ELSE SliceSize
          /\ cRemaining' = cVolume
          /\ cPc' = "while"
     ELSE /\ cPc' = "abort"
          /\ UNCHANGED <<cIt, cRemaining>>
  /\ UNCHANGED <<cMachine, cLocal, cTask, cVolume, cI, cTargets>>
  /\ UNCHANGED NotCall

\* while (remaining_volume > 0): enter the for loop, which has no
\* initialisation
SliceWhile ==
  /\ cPc = "while"
  /\ cRemaining > 0
  /\ cPc' = "for"
  /\ UNCHANGED <<cMachine, cLocal, cTask, cVolume, cIt, cRemaining, cI, cTargets>>
  /\ UNCHANGED NotCall

\* remaining_volume is 0: decompose_index_space over target_procs
SliceDecompose ==
  /\ cPc = "while"
  /\ cRemaining <= 0
  /\ cPc' = "done"
  /\ UNCHANGED <<cMachine, cLocal, cTask, cVolume, cIt, cRemaining, cI, cTargets>>
  /\ UNCHANGED NotCall

\* the for loop's test holds: push_back(*it), --remaining_volume, and the
\* break when nothing remains (it = procs.begin() follows the loop)
SlicePush ==
  /\ cPc = "for"
  /\ cIt # SliceSize
  /\ cRemaining > 0
  /\ cTargets' = Append(cTargets, SliceProcs[cIt])
  /\ cRemaining' = cRemaining - 1
  /\ IF cRemaining - 1 = 0
     THEN /\ cIt' = 0
          /\ cPc' = "while"
          /\ UNCHANGED cI
     ELSE /\ cI' = 1
          /\ cPc' = "stride"
          /\ UNCHANGED cIt
  /\ UNCHANGED <<cMachine, cLocal, cTask, cVolume>>
  /\ UNCHANGED NotCall

\* the for loop's test fails: it = procs.begin()
SliceWrap ==
  /\ cPc = "for"
  /\ ~(cIt # SliceSize /\ cRemaining > 0)
  /\ cIt' = 0
  /\ cPc' = "while"
  /\ UNCHANGED <<cMachine, cLocal, cTask, cVolume, cRemaining, cI, cTargets>>
  /\ UNCHANGED NotCall

\* for (int i = 1; i < stride; ++i) if (++it == procs.end()) break;
\* at the end of the list both loops are left and it = procs.begin()
SliceStride ==
  /\ cPc = "stride"
  /\ cI < sliceStride(SliceSize, cVolume)
  /\ IF cIt + 1 = SliceSize
     THEN /\ cIt' = 0
          /\ cPc' = "while"
          /\ UNCHANGED cI
     ELSE /\ cIt' = cIt + 1
          /\ cI' = cI + 1
          /\ UNCHANGED cPc
  /\ UNCHANGED <<cMachine, cLocal, cTask, cVolume, cRemaining, cTargets>>
  /\ UNCHANGED NotCall

\* the stride loop is over with it inside the list: the ++it of the for loop
SliceAdvance ==
  /\ cPc = "stride"
  /\ ~(cI < sliceStride(SliceSize, cVolume))
  /\ cIt' = cIt + 1
  /\ cPc' = "for"
  /\ UNCHANGED <<cMachine, cLocal, cTask, cVolume, cRemaining, cI, cTargets>>
  /\ UNCHANGED NotCall

CallNext ==
  \/ SelectTaskOptions
  \/ SliceEnter
  \/ SliceWhile
  \/ SliceDecompose
  \/ SlicePush
  \/ SliceWrap
  \/ SliceStride
  \/ SliceAdvance

SpecCalls == CallInit /\ [][CallNext]_vars

\* a call that can take a step takes it
SpecCallsFair == CallInit /\ [][CallNext]_vars /\ WF_vars(CallNext)


(***************************************************************************)
(* Claims about the mapper's calls, checked under SpecCalls and            *)
(* SpecCallsFair.                                                          *)
(***************************************************************************)
\* the last processor of the list of the mapper's own node
LastOfLocalNode == proc_map(cMachine, cLocal.node)[cMachine.procs - 1]

\* C31 (boundary pinning): select_task_options gives a task named
\* "boundary" the last processor of the list of the mapper's node as its
\* target, whatever its shard, sector, iteration and former target, and
\* leaves the target of a task of any other name as it was.
C31_BoundaryPinning ==
  [][cPc = "options" =>
       /\ cTask'.name = cTask.name
       /\ cTask'.tag = cTask.tag
       /\ cTask'.target_proc = IF cTask.name = "boundary" THEN LastOfLocalNode
                               ELSE cTask.target_proc]_vars

\* a boundary task of a corner sector, launched from a processor that is
\* not the last of its node, has the last one as its target
C31_Witness ==
  /\ cPc = "opted"
  /\ cTask.name = "boundary"
  /\ cTask.tag.sector = DOWN_LEFT
  /\ cMachine.procs >= 2
  /\ cLocal # LastOfLocalNode
  /\ cTask.target_proc = LastOfLocalNode
  /\ cTask.options.map_locally

\* a task of another name keeps a target on another node than the mapper's
C31_WitnessOther ==
  /\ cPc = "opted"
  /\ cTask.name = "stencil"
  /\ cTask.target_proc.node # cLocal.node
  /\ cTask.options.map_locally


\* the launch volume is between 1 and the size of the list
VolumeFits == cVolume >= 1 /\ cVolume <= SliceSize

TargetListed == \E k \in DOMAIN SliceProcs : SliceProcs[k] = cTask.target_proc

\* where a processor stands in procs
PositionOf(proc) == CHOOSE k \in DOMAIN SliceProcs : SliceProcs[k] = proc

\* C33 (slice_domain): for a list of P processors, a volume V with
\* 1 <= V <= P and any target processor, the assertion holds and the
\* selection loop ends, having selected exactly V pairwise distinct
\* processors of the list: the first is the target processor when that is
\* in the list (the first of the list when not), and each next one stands
\* floor(P / V) places after the one before, or is the first of the list
\* when that passes the end.
C33_SliceDomain ==
  /\ []((cPc = "done" /\ VolumeFits) =>
          /\ Len(cTargets) = cVolume
          /\ \A i, j \in 1 .. Len(cTargets) : i # j => cTargets[i] # cTargets[j]
          /\ \A i \in 1 .. Len(cTargets) :
               \E k \in DOMAIN SliceProcs : SliceProcs[k] = cTargets[i]
          /\ cTargets[1] = IF TargetListed THEN cTask.target_proc
                           ELSE SliceProcs[0]
          /\ \A i \in 1 .. Len(cTargets) - 1 :
               LET next == PositionOf(cTargets[i]) + SliceSize \div cVolume
               IN  PositionOf(cTargets[i + 1])
                     = IF next < SliceSize THEN next ELSE 0)
  /\ [](cPc = "abort" => ~VolumeFits)
  /\ ((cPc = "slice" /\ VolumeFits) ~> (cPc = "done"))

\* three processors were selected with a stride of two, from a target that
\* is not the first of the list, wrapping to the start of the list
C33_Witness ==
  /\ cPc = "done"
  /\ cVolume = 3
  /\ SliceSize \div cVolume = 2
  /\ Len(cTargets) = 3
  /\ cTargets[1] = cTask.target_proc
  /\ PositionOf(cTargets[1]) > 0
  /\ \E i \in 2 .. 3 : PositionOf(cTargets[i]) = 0

====
